---- MODULE Spec2Model ----
(***************************************************************************)
(* State-machine model of the filededup scanning agent: Agent.Run of       *)
(* internal/agent/agent.go (the concurrent scan-hash-batch-send pipeline). *)
(* One process for Run itself (count pass, walk, ordered shutdown), one    *)
(* per worker goroutine, one for the result collector, one for the batch   *)
(* sender and one for the progress reporter.  Go channels are modelled as  *)
(* bounded FIFO sequences with a closed flag; a channel of capacity 0 is   *)
(* modelled by a joint step of its sender and its receiver.                *)
(***************************************************************************)
EXTENDS Integers, Sequences, FiniteSets, TLC

\* ---------------------------------------------------------------- bounds
MaxEntries == 3
MaxWorkers == 2
MaxQueueSize == 1
MaxBatchSize == 2

\* ------------------------------------------------------ the scanned tree
\* What filepath.Walk reports for one entry (it uses Lstat): an entry that is
\* not a directory (a regular file, or a symbolic link, whatever it refers
\* to), a directory, or an error.
EntryKinds == {"file", "dir", "err"}

RECURSIVE SeqsUpTo(_, _)
SeqsUpTo(S, n) ==
  IF n = 0 THEN {<<>>}
  ELSE LET shorter == SeqsUpTo(S, n - 1)
       IN  shorter \cup {Append(s, x) : s \in {t \in shorter : Len(t) = n - 1}, x \in S}

\* The visit sequence of filepath.Walk: the root first; a root that is not a
\* readable directory is the only entry visited.
Trees ==
  {<<"err">>, <<"file">>} \cup {<<"dir">> \o s : s \in SeqsUpTo(EntryKinds, MaxEntries)}

\* File sizes the hashing code is given: the sizes within SizeSlack of the
\* sizes at which its behaviour changes, and of one size well above them.
SizeSlack == 1

\* Largest file size (in units of the smallest) the skip-large gate is tried on.
MaxFileBytes == 2

\* Go's int, scaled down to IntBits bits (two's complement, wrapping).
IntBits == 16

\* Largest runtime.NumCPU() and largest number of With* calls tried.
MaxCPU == 5
MaxCalls == 2

\* Largest number of records in the body of one POST /files request.
MaxRecords == 2

\* Agent values Run can be called on: New leaves BatchSize as given by the
\* -batch flag (any int); the fields are exported.
Agents ==
  [NumWorkers : 1..MaxWorkers, QueueSize : 0..MaxQueueSize, BatchSize : (0 - 1)..MaxBatchSize]

\* Trees in which the entries that Lstat reports as non-directories are told
\* apart: "file" is a regular file, "symdir" a symbolic link that refers to a
\* directory (filepath.Walk does not follow it, so it is reported as one
\* non-directory entry). The root itself may be such a link.
LinkKinds == EntryKinds \cup {"symdir"}

LinkTrees ==
  {<<"err">>, <<"file">>, <<"symdir">>}
    \cup {<<"dir">> \o s : s \in SeqsUpTo(LinkKinds, MaxEntries)}

LinkAgents ==
  [NumWorkers : {1}, QueueSize : 0..MaxQueueSize, BatchSize : {MaxBatchSize}]

VARIABLES
  agent,            \* the Agent value: NumWorkers, QueueSize, BatchSize
  tree,             \* the entries filepath.Walk visits, in order
  content,          \* per path: the bytes of the file (equal numbers: equal bytes)
  absFails,         \* paths for whose directory filepath.Abs returns an error
  report,           \* the last "Scan progress" line the reporter logged
  calls,            \* how the agent was built: New and the With* calls, in order
  faults,           \* what the server and the network can do to a sendBatch call
  maxFileSize,      \* limit of the skip-large gate (0: the gate is off)
  fileSize,         \* per path: info.Size() as the walk reports it
  pcMain,           \* position of Run
  walkIdx,          \* index of the entry the walk callback is at
  walkErr,          \* err returned by the second filepath.Walk
  runResult,        \* what Run returned
  totalFiles,       \* atomic counters
  totalBytes,
  queuedFiles,
  processedFiles,
  fileQueue, fileClosed,
  resultQueue, resultClosed,
  batchQueue, batchClosed,
  wg,               \* sync.WaitGroup counter
  fileSemaphore,    \* number of permits held
  resultDone, batchDone, progressDone,
  pcW, pathW,       \* per worker: position, path being processed (0: none)
  pcC, batch,       \* collector: position, its batch buffer
  pcS, cur,         \* sender: position, the batch it received
  pcR,              \* progress reporter
  crashed,          \* a goroutine panicked: the process is gone
  \* history of the run (never read by the pipeline)
  dequeued,         \* paths popped from the file queue
  outcome,          \* per path: what stat and hash did
  emitted,          \* records pushed onto the result queue, in order
  popped,           \* records the collector popped, in order
  pushed,           \* batches pushed onto the batch queue, in order
  sent,             \* calls of sendBatch: the batch and the error returned
  wire,             \* calls of sendBatch: what happened to the request
  log,              \* shutdown events, in order
  \* one file being hashed by a worker (lines 169-177, 317-466)
  hSize,            \* info.Size() of the file
  hDiff,            \* offset of the one byte in which a second file of the
                    \* same size differs from this one
  hPc,              \* position inside the hashing code
  hStrategy,        \* the function the worker called
  hMiddle,          \* middleSize
  hPos,             \* offset of the open file
  hRemaining,       \* remaining of the read loop in progress
  hI,               \* i of the sample loop
  \* the middle samples of hashLargeFile in int64 arithmetic (lines 365-410)
  oSize,            \* size, as a number of any magnitude
  oPc,              \* position inside hashLargeFile
  oI,               \* i of the sample loop
  oSamples,         \* the samples read so far: offset sought and bytes read
  \* the sequential Run (src/pkg/agent/agent.go, lines 44-85) on the same tree
  seqPc,            \* position of the sequential Run
  seqIdx,           \* index of the entry its walk callback is at
  seqBatch,         \* its batch
  seqOutcome,       \* per path: what its hashFile did
  seqSent,          \* its calls of sendBatch: the batch and the error returned
  \* the server (src/pkg/record)
  files,            \* the rows of table files
  nextId,           \* number of rows inserted so far (the next row's id)
  requests,         \* the last POST /files request answered: what it decoded to, and its answer
  handler,          \* the request UploadFilesHandler is serving
  hFed,             \* what was written to the digest, in order
  hInputsDiffer,    \* the digest inputs of the two files differ so far
  hPrev             \* the file this worker hashed before: size, strategy, digest input

vars ==
  <<agent, tree, content, absFails, maxFileSize, fileSize, pcMain, walkIdx, walkErr, runResult, totalFiles,
    totalBytes, report, calls, faults, wire, queuedFiles,
    processedFiles, fileQueue, fileClosed, resultQueue, resultClosed, batchQueue,
    batchClosed, wg, fileSemaphore, resultDone, batchDone, progressDone, pcW, pathW,
    pcC, batch, pcS, cur, pcR, crashed, dequeued, outcome, emitted, popped, pushed,
    sent, log, hSize, hDiff, hPc, hStrategy, hMiddle, hPos, hRemaining, hI, hFed,
    hInputsDiffer, hPrev, oSize, oPc, oI, oSamples, seqPc, seqIdx, seqBatch,
    seqOutcome, seqSent, files, nextId, requests, handler>>

mainVars == <<pcMain, walkIdx, walkErr, runResult, totalFiles, totalBytes, queuedFiles>>
chanFlags == <<fileClosed, resultClosed, batchClosed, resultDone, batchDone, progressDone>>
workerVars == <<pcW, pathW, wg, fileSemaphore, processedFiles, dequeued, outcome, emitted>>
collectorVars == <<pcC, batch, popped, pushed>>
senderVars == <<pcS, cur, sent, wire>>
hashVars ==
  <<hSize, hDiff, hPc, hStrategy, hMiddle, hPos, hRemaining, hI, hFed, hInputsDiffer,
    hPrev>>
offsetVars == <<oSize, oPc, oI, oSamples>>
seqVars == <<seqPc, seqIdx, seqBatch, seqOutcome, seqSent>>
serverVars == <<files, nextId, requests, handler>>
fixedVars ==
  <<agent, tree, content, absFails, maxFileSize, fileSize, report, calls, faults,
    hashVars, offsetVars, seqVars, serverVars>>

\* The state of Agent.Run and of what it runs on.
runVars ==
  <<agent, tree, content, absFails, maxFileSize, fileSize, report, calls, faults,
    mainVars, chanFlags, workerVars, collectorVars, senderVars,
    fileQueue, resultQueue, batchQueue, pcR, crashed, log>>

Workers == 1..agent.NumWorkers

\* A batch queue with room for one batch more than there are workers.
BatchQueueCapPlusOne == agent.NumWorkers + 1

\* Capacities of the three channels Run makes.
FileQueueCap == agent.QueueSize
ResultQueueCap == agent.QueueSize
BatchQueueCap == agent.NumWorkers
Paths == 1..Len(tree)

\* os.FileInfo.IsDir() of the Lstat result the walk callback is given.
LstatIsDir(kind) == kind = "dir"

\* What os.Stat (which follows links) can answer for an enqueued path: an
\* error (the file is gone or unreadable by now), a directory (the path is a
\* link to one) or a file.
StatResults == {"err", "dir", "file"}

\* os.Stat of a path that was a link to a directory when the walk saw it:
\* the link is followed, so the answer is a directory, or an error when the
\* target is gone by now.
StatResultsOf(kind) == IF kind = "symdir" THEN {"err", "dir"} ELSE StatResults

\* sha256 of the bytes written to it, taken as injective; the files of a
\* run are hashed whole (hashFile), so the digest input of a file is its
\* bytes, the same whenever the file is hashed.
Digest(input) == <<"sha256", input>>
\* A hash that depends on the name of the file instead of its bytes.
hashOfName(p) == Digest(p)

hashFile(p) == Digest(content[p])

\* filepath.Dir(path) and filepath.Abs of it: the directory as the walk
\* spelled it, and the same directory made absolute.
Dir(p) == [of |-> p, abs |-> FALSE]
Abs(d) == [d EXCEPT !.abs = TRUE]

\* A fallback that leaves Path empty when filepath.Abs fails.
AbsPathOrEmpty(p) == IF p \in absFails THEN [of |-> 0, abs |-> FALSE] ELSE Abs(Dir(p))

\* absPath, err := filepath.Abs(dirPath); if err != nil { absPath = dirPath }
AbsPath(p) == IF p \in absFails THEN Dir(p) ELSE Abs(Dir(p))

\* The record of file p: path stands for the file (its Filename in its
\* directory), dir is the Path field, hash the Hash field.
FileRecord(p) == [path |-> p, dir |-> AbsPath(p), hash |-> hashFile(p)]

\* The agent is an Agent{...} literal (its fields are exported), not the
\* result of New.
AgentLiteral == calls = <<>>

\* The server is reached and answers every request, with 204 or with another
\* status.
ServerAnswers == faults = {"status204", "statusOther"}

\* The skip-large gate is off (the -skip-large flag is not given).
GateOff ==
  /\ maxFileSize = 0
  /\ fileSize = [p \in Paths |-> 1]

\* Files with pairwise different bytes, in a process whose working
\* directory can be resolved, scanned without the skip-large gate.
PlainFiles ==
  /\ content = [p \in Paths |-> p]
  /\ absFails = {}
  /\ GateOff

PipelineInit(agents, trees) ==
  /\ agent \in agents
  /\ tree \in trees
  /\ pcMain = "count"
  /\ walkIdx = 1
  /\ walkErr = "nil"
  /\ runResult = "none"
  /\ totalFiles = 0
  /\ totalBytes = 0
  /\ report = <<>>
  /\ queuedFiles = 0
  /\ processedFiles = 0
  /\ fileQueue = <<>> /\ fileClosed = FALSE
  /\ resultQueue = <<>> /\ resultClosed = FALSE
  /\ batchQueue = <<>> /\ batchClosed = FALSE
  /\ wg = 0
  /\ fileSemaphore = 0
  /\ resultDone = FALSE /\ batchDone = FALSE /\ progressDone = FALSE
  /\ pcW = [w \in Workers |-> "idle"]
  /\ pathW = [w \in Workers |-> 0]
  /\ pcC = "idle" /\ batch = <<>>
  /\ pcS = "idle" /\ cur = <<>>
  /\ pcR = "idle"
  /\ crashed = FALSE
  /\ dequeued = {}
  /\ outcome = [p \in Paths |-> "none"]
  /\ emitted = <<>>
  /\ popped = <<>>
  /\ pushed = <<>>
  /\ sent = <<>>
  /\ wire = <<>>
  /\ seqPc = "idle" /\ seqIdx = 1 /\ seqBatch = <<>> /\ seqSent = <<>>
  /\ seqOutcome = [p \in 1..Len(tree) |-> "none"]
  /\ files = {} /\ nextId = 1 /\ requests = <<>>
  /\ handler = [pc |-> "idle", files |-> <<>>, idx |-> 0, failed |-> {}, before |-> {}]
  /\ log = <<>>

\* hashLargeFile is not followed in int64 arithmetic.
OffsetIdle == oSize = <<>> /\ oPc = "idle" /\ oI = 0 /\ oSamples = <<>>

\* No file is being looked at by the hashing code.
NoHashing ==
  /\ hSize = 0 /\ hDiff = 0
  /\ hPc = "idle" /\ hStrategy = "none"
  /\ hMiddle = 0 /\ hPos = 0 /\ hRemaining = 0 /\ hI = 0
  /\ hFed = <<>>
  /\ hInputsDiffer = FALSE
  /\ hPrev = <<>>

HashIdle == NoHashing /\ OffsetIdle

InitOver(agents, trees) ==
  PipelineInit(agents, trees) /\ AgentLiteral /\ ServerAnswers /\ PlainFiles /\ HashIdle

Init == InitOver(Agents, Trees)

LinkInit == InitOver(LinkAgents, LinkTrees)


\* ------------------------------------------------------------ Run (main)
Alive == ~crashed

\* A counting pass that counts the directories as well.
NumFilesAndDirs(t) == Cardinality({i \in 1..Len(t) : t[i] # "err"})

NumFiles(t) == Cardinality({i \in 1..Len(t) : t[i] # "err" /\ ~LstatIsDir(t[i])})

RECURSIVE SumSizes(_)
SumSizes(ps) ==
  IF ps = {} THEN 0
  ELSE LET p == CHOOSE q \in ps : TRUE IN fileSize[p] + SumSizes(ps \ {p})

NumBytes(t) == SumSizes({i \in 1..Len(t) : t[i] # "err" /\ ~LstatIsDir(t[i])})

\* The counting pass: one filepath.Walk that adds every non-directory entry
\* reported without error to totalFiles, and its size to totalBytes.
CountPass ==
  /\ Alive /\ pcMain = "count"
  /\ totalFiles' = NumFiles(tree)
  /\ totalBytes' = NumBytes(tree)
  /\ pcMain' = "start"
  /\ UNCHANGED <<walkIdx, walkErr, runResult, queuedFiles>>
  /\ UNCHANGED <<fixedVars, chanFlags, workerVars, collectorVars, senderVars>>
  /\ UNCHANGED <<fileQueue, resultQueue, batchQueue, pcR, crashed, log>>

\* Run starts the reporter, makes the channels, then starts the workers
\* (wg.Add(1) each), the sender and the collector.  Every goroutine started
\* blocks on an empty channel until the walk begins, so starting them in one
\* step loses no interleaving.
StartPipeline ==
  /\ Alive /\ pcMain = "start"
  /\ pcR' = "run"
  /\ wg' = agent.NumWorkers
  /\ pcW' = [w \in Workers |-> "recv"]
  /\ pcS' = "recv"
  /\ pcC' = "start"
  /\ pcMain' = "walk"
  /\ UNCHANGED <<walkIdx, walkErr, runResult, totalFiles, totalBytes, queuedFiles>>
  /\ UNCHANGED <<fixedVars, chanFlags, fileQueue, resultQueue, batchQueue>>
  /\ UNCHANGED <<pathW, fileSemaphore, processedFiles, dequeued, outcome, emitted>>
  /\ UNCHANGED <<batch, popped, pushed, cur, sent, wire, crashed, log>>

\* A callback that hands the error of an entry back to filepath.Walk.
WalkFnStopsOnError(kind) == IF kind = "err" THEN "error" ELSE "nil"

\* What the walk callback returns: nil on the skip branch and nil after
\* queueing; filepath.Walk stops at the first non-nil return and returns it.
WalkFnReturn(kind) == "nil"

WalkAdvance(kind) ==
  IF WalkFnReturn(kind) = "nil"
  THEN /\ walkIdx' = walkIdx + 1
       /\ pcMain' = "walk"
       /\ UNCHANGED walkErr
  ELSE /\ walkErr' = WalkFnReturn(kind)
       /\ pcMain' = "closeFile"
       /\ UNCHANGED walkIdx

\* A gate that lets every file through.
NeverExceeds(p) == FALSE

\* The skip-large gate (Agent.WithMaxFileSize, set by -skip-large and
\* -max-size): a file larger than the limit does not enter the worker pool.
ExceedsMaxFileSize(p) == maxFileSize > 0 /\ fileSize[p] > maxFileSize

\* Callback on an entry reported with an error, a directory, or a file the
\* gate holds back: return nil.
WalkSkip ==
  /\ Alive /\ pcMain = "walk" /\ walkIdx <= Len(tree)
  /\ \/ tree[walkIdx] = "err"
     \/ LstatIsDir(tree[walkIdx])
     \/ ExceedsMaxFileSize(walkIdx)
  /\ WalkAdvance(tree[walkIdx])
  /\ UNCHANGED <<runResult, totalFiles, totalBytes, queuedFiles>>
  /\ UNCHANGED <<fixedVars, chanFlags, workerVars, collectorVars, senderVars>>
  /\ UNCHANGED <<fileQueue, resultQueue, batchQueue, pcR, crashed, log>>

WalkIsFile == 
  /\ pcMain = "walk" /\ walkIdx <= Len(tree)
  /\ tree[walkIdx] # "err" /\ ~LstatIsDir(tree[walkIdx])
  /\ ~ExceedsMaxFileSize(walkIdx)

\* fileQueue <- path, buffered: blocks while the queue is full.
WalkEnqueue ==
  /\ Alive /\ WalkIsFile
  /\ Len(fileQueue) < FileQueueCap
  /\ fileQueue' = Append(fileQueue, walkIdx)
  /\ pcMain' = "queued"
  /\ UNCHANGED <<walkIdx, walkErr, runResult, totalFiles, totalBytes, queuedFiles>>
  /\ UNCHANGED <<fixedVars, chanFlags, workerVars, collectorVars, senderVars>>
  /\ UNCHANGED <<resultQueue, batchQueue, pcR, crashed, log>>

\* fileQueue <- path, unbuffered: the send completes together with the
\* receive of a worker waiting in `for path := range fileQueue`.
WalkHandoff(w) ==
  /\ Alive /\ WalkIsFile
  /\ FileQueueCap = 0
  /\ pcW[w] = "recv"
  /\ pcW' = [pcW EXCEPT ![w] = "acquire"]
  /\ pathW' = [pathW EXCEPT ![w] = walkIdx]
  /\ dequeued' = dequeued \cup {walkIdx}
  /\ pcMain' = "queued"
  /\ UNCHANGED <<walkIdx, walkErr, runResult, totalFiles, totalBytes, queuedFiles>>
  /\ UNCHANGED <<fixedVars, chanFlags, collectorVars, senderVars>>
  /\ UNCHANGED <<wg, fileSemaphore, processedFiles, outcome, emitted>>
  /\ UNCHANGED <<fileQueue, resultQueue, batchQueue, pcR, crashed, log>>

\* A scan walk that counts the total as it goes (no counting pass of its own).
WalkQueuedCountsTotal ==
  /\ Alive /\ pcMain = "queued"
  /\ queuedFiles' = queuedFiles + 1
  /\ totalFiles' = totalFiles + 1
  /\ totalBytes' = totalBytes + fileSize[walkIdx]
  /\ WalkAdvance(tree[walkIdx])
  /\ UNCHANGED runResult
  /\ UNCHANGED <<fixedVars, chanFlags, workerVars, collectorVars, senderVars>>
  /\ UNCHANGED <<fileQueue, resultQueue, batchQueue, pcR, crashed, log>>

\* queuedFiles.Add(1); return nil
WalkQueued ==
  /\ Alive /\ pcMain = "queued"
  /\ queuedFiles' = queuedFiles + 1
  /\ WalkAdvance(tree[walkIdx])
  /\ UNCHANGED <<runResult, totalFiles, totalBytes>>
  /\ UNCHANGED <<fixedVars, chanFlags, workerVars, collectorVars, senderVars>>
  /\ UNCHANGED <<fileQueue, resultQueue, batchQueue, pcR, crashed, log>>

\* filepath.Walk has visited every entry and returns nil.
WalkDone ==
  /\ Alive /\ pcMain = "walk" /\ walkIdx > Len(tree)
  /\ walkErr' = "nil"
  /\ pcMain' = "closeFile"
  /\ UNCHANGED <<walkIdx, runResult, totalFiles, totalBytes, queuedFiles>>
  /\ UNCHANGED <<fixedVars, chanFlags, workerVars, collectorVars, senderVars>>
  /\ UNCHANGED <<fileQueue, resultQueue, batchQueue, pcR, crashed, log>>

MainStep(from, to) ==
  /\ Alive /\ pcMain = from
  /\ pcMain' = to
  /\ UNCHANGED <<walkIdx, walkErr, runResult, totalFiles, totalBytes, queuedFiles>>
  /\ UNCHANGED <<fixedVars, workerVars, collectorVars, senderVars>>
  /\ UNCHANGED <<fileQueue, resultQueue, batchQueue, pcR, crashed>>

\* close(fileQueue)
CloseFileQueue ==
  /\ MainStep("closeFile", "wgWait")
  /\ fileClosed' = TRUE
  /\ log' = Append(log, "fileQueueClosed")
  /\ UNCHANGED <<resultClosed, batchClosed, resultDone, batchDone, progressDone>>

\* A Run that does not wait for the workers before closing the result queue.
NoWaitForWorkers == TRUE

\* wg.Wait() returns once the counter is zero.
WgWaitReady == wg = 0

WgWait ==
  /\ WgWaitReady
  /\ MainStep("wgWait", "closeResult")
  /\ UNCHANGED <<chanFlags, log>>

\* close(resultQueue)
CloseResultQueue ==
  /\ MainStep("closeResult", "waitResult")
  /\ resultClosed' = TRUE
  /\ log' = Append(log, "resultQueueClosed")
  /\ UNCHANGED <<fileClosed, batchClosed, resultDone, batchDone, progressDone>>

\* A Run that does not wait for the collector before closing the batch queue.
NoWaitForCollector == TRUE

\* <-resultDone
WaitResultReady == resultDone

WaitResultDone ==
  /\ WaitResultReady
  /\ MainStep("waitResult", "closeBatch")
  /\ UNCHANGED <<chanFlags, log>>

\* close(batchQueue)
CloseBatchQueue ==
  /\ MainStep("closeBatch", "waitBatch")
  /\ batchClosed' = TRUE
  /\ log' = Append(log, "batchQueueClosed")
  /\ UNCHANGED <<fileClosed, resultClosed, resultDone, batchDone, progressDone>>

\* <-batchDone
WaitBatchReady == batchDone

WaitBatchDone ==
  /\ WaitBatchReady
  /\ MainStep("waitBatch", "closeProgress")
  /\ UNCHANGED <<chanFlags, log>>

\* close(progressDone)
CloseProgress ==
  /\ MainStep("closeProgress", "return")
  /\ progressDone' = TRUE
  /\ log' = Append(log, "progressStop")
  /\ UNCHANGED <<fileClosed, resultClosed, batchClosed, resultDone, batchDone>>

\* if err != nil { return walk error }; log the summary; return nil
RunReturnValue(err) == IF err # "nil" THEN "walk error" ELSE "nil"

Return ==
  /\ Alive /\ pcMain = "return"
  /\ runResult' = RunReturnValue(walkErr)
  /\ log' = Append(log, IF walkErr # "nil" THEN "returnError" ELSE "summaryReturn")
  /\ pcMain' = "done"
  /\ UNCHANGED <<walkIdx, walkErr, totalFiles, totalBytes, queuedFiles>>
  /\ UNCHANGED <<fixedVars, chanFlags, workerVars, collectorVars, senderVars>>
  /\ UNCHANGED <<fileQueue, resultQueue, batchQueue, pcR, crashed>>

Main ==
  \/ CountPass \/ StartPipeline \/ WalkSkip \/ WalkEnqueue
  \/ (\E w \in Workers : WalkHandoff(w))
  \/ WalkQueued \/ WalkDone \/ CloseFileQueue \/ WgWait \/ CloseResultQueue
  \/ WaitResultDone \/ CloseBatchQueue \/ WaitBatchDone \/ CloseProgress \/ Return


\* ----------------------------------------------------------------- worker
WorkerFrame ==
  /\ UNCHANGED <<fixedVars, mainVars, chanFlags, collectorVars, senderVars>>
  /\ UNCHANGED <<batchQueue, pcR>>

\* for path := range fileQueue: take the next path.
WorkerRecv(w) ==
  /\ Alive /\ pcW[w] = "recv"
  /\ Len(fileQueue) > 0
  /\ pathW' = [pathW EXCEPT ![w] = Head(fileQueue)]
  /\ fileQueue' = Tail(fileQueue)
  /\ dequeued' = dequeued \cup {Head(fileQueue)}
  /\ pcW' = [pcW EXCEPT ![w] = "acquire"]
  /\ WorkerFrame
  /\ UNCHANGED <<wg, fileSemaphore, processedFiles, outcome, emitted>>
  /\ UNCHANGED <<resultQueue, crashed, log>>

\* The range loop ends when fileQueue is closed and drained; the deferred
\* wg.Done() runs.
WorkerExitReady == fileClosed /\ Len(fileQueue) = 0

WorkerExit(w) ==
  /\ Alive /\ pcW[w] = "recv"
  /\ WorkerExitReady
  /\ pcW' = [pcW EXCEPT ![w] = "exit"]
  /\ wg' = wg - 1
  /\ log' = Append(log, "workerExit")
  /\ WorkerFrame
  /\ UNCHANGED <<pathW, fileSemaphore, processedFiles, dequeued, outcome, emitted>>
  /\ UNCHANGED <<fileQueue, resultQueue, crashed>>

\* A semaphore with one permit fewer than there are workers.
SemaphoreCapBelowWorkers == agent.NumWorkers - 1

\* fileSemaphore := make(chan struct{}, a.NumWorkers*2)
SemaphoreCap == 2 * agent.NumWorkers

\* fileSemaphore <- struct{}{}: blocks while all permits are held.
WorkerAcquire(w) ==
  /\ Alive /\ pcW[w] = "acquire"
  /\ fileSemaphore < SemaphoreCap
  /\ fileSemaphore' = fileSemaphore + 1
  /\ pcW' = [pcW EXCEPT ![w] = "stat"]
  /\ WorkerFrame
  /\ UNCHANGED <<pathW, wg, processedFiles, dequeued, outcome, emitted>>
  /\ UNCHANGED <<fileQueue, resultQueue, crashed, log>>

\* A skip that forgets processedFiles.Add(1).
WorkerSkippedNoCount(w, why) ==
  /\ UNCHANGED processedFiles
  /\ outcome' = [outcome EXCEPT ![pathW[w]] = why]
  /\ pcW' = [pcW EXCEPT ![w] = "release"]
  /\ UNCHANGED wg

\* A skip that continues with the next path without `<-fileSemaphore`.
WorkerSkippedNoRelease(w, why) ==
  /\ processedFiles' = processedFiles + 1
  /\ outcome' = [outcome EXCEPT ![pathW[w]] = why]
  /\ pcW' = [pcW EXCEPT ![w] = "recv"]
  /\ UNCHANGED wg

\* A skip that returns from the worker (wg.Done() runs) instead of continuing.
WorkerSkippedReturns(w, why) ==
  /\ processedFiles' = processedFiles + 1
  /\ outcome' = [outcome EXCEPT ![pathW[w]] = why]
  /\ pcW' = [pcW EXCEPT ![w] = "exit"]
  /\ wg' = wg - 1

\* A skipped path: processedFiles.Add(1), then on to the release and continue.
WorkerSkipped(w, why) ==
  /\ processedFiles' = processedFiles + 1
  /\ outcome' = [outcome EXCEPT ![pathW[w]] = why]
  /\ pcW' = [pcW EXCEPT ![w] = "release"]
  /\ UNCHANGED wg

\* info, err := os.Stat(path); if err != nil || info.IsDir() { skip }
WorkerStat(w) ==
  /\ Alive /\ pcW[w] = "stat"
  /\ \E r \in StatResultsOf(tree[pathW[w]]) :
       IF r = "err" \/ r = "dir"
       THEN WorkerSkipped(w, "statSkipped")
       ELSE /\ pcW' = [pcW EXCEPT ![w] = "hash"]
            /\ UNCHANGED <<processedFiles, outcome, wg>>
  /\ WorkerFrame
  /\ UNCHANGED <<pathW, fileSemaphore, dequeued, emitted>>
  /\ UNCHANGED <<fileQueue, resultQueue, crashed, log>>

\* A worker that emits a record (with an empty hash) although hashing failed.
WorkerHashPlaceholder(w) ==
  /\ Alive /\ pcW[w] = "hash"
  /\ \E ok \in BOOLEAN :
       /\ pcW' = [pcW EXCEPT ![w] = "emit"]
       /\ outcome' = [outcome EXCEPT ![pathW[w]] = IF ok THEN "hashed" ELSE "hashFailed"]
       /\ UNCHANGED processedFiles
  /\ UNCHANGED <<fixedVars, mainVars, chanFlags, collectorVars, senderVars>>
  /\ UNCHANGED <<batchQueue, pcR>>
  /\ UNCHANGED <<pathW, wg, fileSemaphore, dequeued, emitted>>
  /\ UNCHANGED <<fileQueue, resultQueue, crashed, log>>

\* hash, err = hashFile(path) or hashLargeFile(path, size); if err != nil { skip }
WorkerHash(w) ==
  /\ Alive /\ pcW[w] = "hash"
  /\ \E ok \in BOOLEAN :
       IF ok
       THEN /\ pcW' = [pcW EXCEPT ![w] = "emit"]
            /\ outcome' = [outcome EXCEPT ![pathW[w]] = "hashed"]
            /\ UNCHANGED <<processedFiles, wg>>
       ELSE WorkerSkipped(w, "hashFailed")
  /\ WorkerFrame
  /\ UNCHANGED <<pathW, fileSemaphore, dequeued, emitted>>
  /\ UNCHANGED <<fileQueue, resultQueue, crashed, log>>

\* resultQueue <- FileRecord{...}, buffered: blocks while the queue is full;
\* a send on a closed channel panics.
WorkerEmit(w) ==
  /\ Alive /\ pcW[w] = "emit"
  /\ IF resultClosed
     THEN /\ crashed' = TRUE
          /\ UNCHANGED <<resultQueue, emitted, pcW>>
     ELSE /\ Len(resultQueue) < ResultQueueCap
          /\ resultQueue' = Append(resultQueue, FileRecord(pathW[w]))
          /\ emitted' = Append(emitted, FileRecord(pathW[w]))
          /\ pcW' = [pcW EXCEPT ![w] = "count"]
          /\ UNCHANGED crashed
  /\ WorkerFrame
  /\ UNCHANGED <<pathW, wg, fileSemaphore, processedFiles, dequeued, outcome>>
  /\ UNCHANGED <<fileQueue, log>>

\* processedFiles.Add(1) after the record was emitted.
WorkerCount(w) ==
  /\ Alive /\ pcW[w] = "count"
  /\ processedFiles' = processedFiles + 1
  /\ pcW' = [pcW EXCEPT ![w] = "release"]
  /\ WorkerFrame
  /\ UNCHANGED <<pathW, wg, fileSemaphore, dequeued, outcome, emitted>>
  /\ UNCHANGED <<fileQueue, resultQueue, crashed, log>>

\* <-fileSemaphore, then the next iteration.
WorkerRelease(w) ==
  /\ Alive /\ pcW[w] = "release"
  /\ fileSemaphore' = fileSemaphore - 1
  /\ pathW' = [pathW EXCEPT ![w] = 0]
  /\ pcW' = [pcW EXCEPT ![w] = "recv"]
  /\ WorkerFrame
  /\ UNCHANGED <<wg, processedFiles, dequeued, outcome, emitted>>
  /\ UNCHANGED <<fileQueue, resultQueue, crashed, log>>

Worker(w) ==
  \/ WorkerRecv(w) \/ WorkerExit(w) \/ WorkerAcquire(w) \/ WorkerStat(w)
  \/ WorkerHash(w) \/ WorkerEmit(w) \/ WorkerCount(w) \/ WorkerRelease(w)

\* -------------------------------------------------------------- collector
CollectorFrame ==
  /\ UNCHANGED <<fixedVars, mainVars, senderVars>>
  /\ UNCHANGED <<fileClosed, resultClosed, batchClosed, batchDone, progressDone>>
  /\ UNCHANGED <<fileQueue, pcR, log>>

\* batch := make([]FileRecord, 0, a.BatchSize): a negative capacity panics
\* (makeslice: cap out of range), which ends the process.
CollectorStart ==
  /\ Alive /\ pcC = "start"
  /\ IF agent.BatchSize < 0
     THEN crashed' = TRUE /\ UNCHANGED pcC
     ELSE pcC' = "recv" /\ UNCHANGED crashed
  /\ CollectorFrame
  /\ UNCHANGED <<workerVars, batch, popped, pushed, resultQueue, batchQueue, resultDone>>

\* An off-by-one batch test.
BatchFullLate(b) == Len(b) > agent.BatchSize

\* if len(batch) >= a.BatchSize: the batch is due.
BatchFull(b) == Len(b) >= agent.BatchSize

\* batch = append(batch, record), and where the collector goes next.
CollectorTake(record) ==
  /\ batch' = Append(batch, record)
  /\ popped' = Append(popped, record)
  /\ pcC' = IF BatchFull(Append(batch, record)) THEN "push" ELSE "recv"

\* for record := range resultQueue: take the next record.
CollectorRecv ==
  /\ Alive /\ pcC = "recv"
  /\ Len(resultQueue) > 0
  /\ CollectorTake(Head(resultQueue))
  /\ resultQueue' = Tail(resultQueue)
  /\ CollectorFrame
  /\ UNCHANGED <<workerVars, pushed, batchQueue, resultDone, crashed>>

\* resultQueue unbuffered: the worker's send and the collector's receive
\* complete together.
CollectorHandoff(w) ==
  /\ Alive /\ pcC = "recv"
  /\ ResultQueueCap = 0
  /\ pcW[w] = "emit"
  /\ ~resultClosed
  /\ CollectorTake(FileRecord(pathW[w]))
  /\ emitted' = Append(emitted, FileRecord(pathW[w]))
  /\ pcW' = [pcW EXCEPT ![w] = "count"]
  /\ CollectorFrame
  /\ UNCHANGED <<pathW, wg, fileSemaphore, processedFiles, dequeued, outcome>>
  /\ UNCHANGED <<pushed, resultQueue, batchQueue, resultDone, crashed>>

\* batchQueue <- batch (capacity NumWorkers): blocks while the queue is
\* full; a send on a closed channel panics.
PushBatch ==
  IF batchClosed
  THEN /\ crashed' = TRUE
       /\ UNCHANGED <<batchQueue, pushed>>
  ELSE /\ Len(batchQueue) < BatchQueueCap
       /\ batchQueue' = Append(batchQueue, batch)
       /\ pushed' = Append(pushed, batch)
       /\ UNCHANGED crashed

\* A full batch is pushed and a new buffer is started.
CollectorPush ==
  /\ Alive /\ pcC = "push"
  /\ PushBatch
  /\ IF crashed' THEN UNCHANGED <<batch, pcC>> ELSE batch' = <<>> /\ pcC' = "recv"
  /\ CollectorFrame
  /\ UNCHANGED <<workerVars, popped, resultQueue, resultDone>>

\* The range loop ends when resultQueue is closed and drained.
CollectorEndReady == resultClosed /\ Len(resultQueue) = 0

\* A collector that never flushes the final partial batch.
NeverFlush(b) == FALSE

\* if len(batch) > 0: the remaining records are flushed.
NeedsFlush(b) == Len(b) > 0

\* After the loop: flush if needed, else return (the deferred
\* close(resultDone) runs).
CollectorEnd ==
  /\ Alive /\ pcC = "recv"
  /\ CollectorEndReady
  /\ IF NeedsFlush(batch)
     THEN pcC' = "flush" /\ UNCHANGED <<resultDone, log>>
     ELSE /\ pcC' = "exit"
          /\ resultDone' = TRUE
          /\ log' = Append(log, "collectorExit")
  /\ UNCHANGED <<fixedVars, mainVars, senderVars, workerVars>>
  /\ UNCHANGED <<fileClosed, resultClosed, batchClosed, batchDone, progressDone>>
  /\ UNCHANGED <<fileQueue, resultQueue, batchQueue, pcR, batch, popped, pushed, crashed>>

\* batchQueue <- batch for the final partial batch, then return.
CollectorFlush ==
  /\ Alive /\ pcC = "flush"
  /\ PushBatch
  /\ IF crashed'
     THEN UNCHANGED <<pcC, resultDone, log>>
     ELSE /\ pcC' = "exit"
          /\ resultDone' = TRUE
          /\ log' = Append(log, "collectorExit")
  /\ UNCHANGED <<fixedVars, mainVars, senderVars, workerVars>>
  /\ UNCHANGED <<fileClosed, resultClosed, batchClosed, batchDone, progressDone>>
  /\ UNCHANGED <<fileQueue, resultQueue, pcR, batch, popped>>

Collector ==
  \/ CollectorStart \/ CollectorRecv \/ (\E w \in Workers : CollectorHandoff(w))
  \/ CollectorPush \/ CollectorEnd \/ CollectorFlush

\* ----------------------------------------------------------------- sender
SenderFrame ==
  /\ UNCHANGED <<fixedVars, mainVars, workerVars, collectorVars>>
  /\ UNCHANGED <<fileClosed, resultClosed, batchClosed, resultDone, progressDone>>
  /\ UNCHANGED <<fileQueue, resultQueue, pcR, crashed>>

\* for batch := range batchQueue: take the next batch.
SenderRecv ==
  /\ Alive /\ pcS = "recv"
  /\ Len(batchQueue) > 0
  /\ cur' = Head(batchQueue)
  /\ batchQueue' = Tail(batchQueue)
  /\ pcS' = "send"
  /\ SenderFrame
  /\ UNCHANGED <<sent, wire, batchDone, log>>

\* What can happen to one sendBatch call: the encoding fails, the request
\* cannot be built, the transport fails, or the server answers.
SendEvents == {"encodeError", "requestError", "transportError", "status204", "statusOther"}

\* A sendBatch that accepts every answer of the server.
sendBatchAnyStatus(event) ==
  IF event \in {"status204", "statusOther"} THEN "nil" ELSE "error"

\* sendBatch returns nil only after a 204 answer.
sendBatch(event) == IF event = "status204" THEN "nil" ELSE "error"

\* After sendBatch: an error is only logged; either way the loop goes on to
\* the next receive.
SenderRetries(err) == IF err = "nil" THEN "recv" ELSE "send"

SenderAfterSend(err) == "recv"

\* if err := a.sendBatch(batch); err != nil { slog.Error(...) }
SenderSend ==
  /\ Alive /\ pcS = "send"
  /\ \E event \in faults :
       /\ sent' = Append(sent, [batch |-> cur, err |-> sendBatch(event)])
       /\ wire' = Append(wire, event)
       /\ pcS' = SenderAfterSend(sendBatch(event))
  /\ cur' = IF pcS' = "send" THEN cur ELSE <<>>
  /\ SenderFrame
  /\ UNCHANGED <<batchQueue, batchDone, log>>

\* A sender that stops as soon as the batch queue is closed.
SenderEndWhenClosed == batchClosed

\* The range loop ends when batchQueue is closed and drained; the deferred
\* close(batchDone) runs.
SenderEndReady == batchClosed /\ Len(batchQueue) = 0

SenderEnd ==
  /\ Alive /\ pcS = "recv"
  /\ SenderEndReady
  /\ pcS' = "exit"
  /\ batchDone' = TRUE
  /\ log' = Append(log, "senderExit")
  /\ SenderFrame
  /\ UNCHANGED <<cur, sent, wire, batchQueue>>

Sender == SenderRecv \/ SenderSend \/ SenderEnd

\* ------------------------------------------------------ progress reporter
\* case <-progressDone: return
ReporterStop ==
  /\ Alive /\ pcR = "run"
  /\ progressDone
  /\ pcR' = "exit"
  /\ UNCHANGED <<fixedVars, mainVars, chanFlags, workerVars, collectorVars, senderVars>>
  /\ UNCHANGED <<fileQueue, resultQueue, batchQueue, crashed, log>>

\* fmt.Sprintf("%.1f%%", float64(processed) / float64(total) * 100), in
\* tenths of a percent, rounded to the nearest.
Percent(processed, total) == (2 * 1000 * processed + total) \div (2 * total)

\* case <-ticker.C: load the counters and, if total > 0, log a progress line.
ReporterTick ==
  /\ Alive /\ pcR = "run"
  /\ report' = IF totalFiles > 0
               THEN <<[processed |-> processedFiles, queued |-> queuedFiles,
                       total |-> totalFiles,
                       percent |-> Percent(processedFiles, totalFiles)]>>
               ELSE report
  /\ UNCHANGED <<agent, tree, content, absFails, maxFileSize, fileSize, calls, faults,
                 hashVars, offsetVars, seqVars, serverVars>>
  /\ UNCHANGED <<mainVars, chanFlags, workerVars, collectorVars, senderVars>>
  /\ UNCHANGED <<fileQueue, resultQueue, batchQueue, pcR, crashed, log>>

\* ---------------------------------------------------------- specification
Next ==
  \/ CountPass \/ StartPipeline \/ WalkSkip \/ WalkEnqueue
  \/ (\E w \in Workers : WalkHandoff(w))
  \/ WalkQueued \/ WalkDone \/ CloseFileQueue \/ WgWait \/ CloseResultQueue
  \/ WaitResultDone \/ CloseBatchQueue \/ WaitBatchDone \/ CloseProgress \/ Return
  \/ (\E w \in Workers : WorkerRecv(w))
  \/ (\E w \in Workers : WorkerExit(w))
  \/ (\E w \in Workers : WorkerAcquire(w))
  \/ (\E w \in Workers : WorkerStat(w))
  \/ (\E w \in Workers : WorkerHash(w))
  \/ (\E w \in Workers : WorkerEmit(w))
  \/ (\E w \in Workers : WorkerCount(w))
  \/ (\E w \in Workers : WorkerRelease(w))
  \/ CollectorStart \/ CollectorRecv
  \/ (\E w \in Workers : CollectorHandoff(w))
  \/ CollectorPush \/ CollectorEnd \/ CollectorFlush
  \/ SenderRecv \/ SenderSend \/ SenderEnd
  \/ ReporterStop

Spec == Init /\ [][Next]_vars

\* The Go scheduler runs every goroutine that can take a step, and stat,
\* hash and send calls return: weak fairness of each process.
Fairness ==
  /\ WF_vars(Main)
  /\ \A w \in 1..MaxWorkers : WF_vars(w \in Workers /\ Worker(w))
  /\ WF_vars(Collector)
  /\ WF_vars(Sender)
  /\ WF_vars(ReporterStop)

FairSpec == Spec /\ Fairness

LinkSpec == LinkInit /\ [][Next]_vars

\* A root directory holding four files of 1 KB, three with the same bytes
\* and one with other bytes, scanned with a batch size of 4 or more.
ScenarioTree == <<"dir", "file", "file", "file", "file">>

ScenarioContents ==
  {[p \in 1..Len(ScenarioTree) |-> IF p = odd THEN 2 ELSE 1] : odd \in 2..Len(ScenarioTree)}

ScenarioAgents ==
  [NumWorkers : 1..MaxWorkers, QueueSize : 0..MaxQueueSize, BatchSize : {4, 5}]

ScenarioInit ==
  /\ PipelineInit(ScenarioAgents, {ScenarioTree})
  /\ AgentLiteral
  /\ ServerAnswers
  /\ content \in ScenarioContents
  /\ absFails = {}
  /\ GateOff
  /\ HashIdle

ScenarioSpec == ScenarioInit /\ [][Next]_vars

\* Runs in which filepath.Abs fails for the directories of some of the files
\* (the working directory of the process cannot be determined when the
\* worker gets to them).
AbsInit ==
  /\ PipelineInit(LinkAgents, Trees)
  /\ AgentLiteral
  /\ ServerAnswers
  /\ content = [p \in Paths |-> p]
  /\ absFails \in SUBSET {p \in Paths : tree[p] = "file"}
  /\ GateOff
  /\ HashIdle

AbsSpec == AbsInit /\ [][Next]_vars

\* Runs with the skip-large gate on or off, over files of 1..MaxFileBytes
\* bytes.
GateInit ==
  /\ PipelineInit(LinkAgents, Trees)
  /\ AgentLiteral
  /\ ServerAnswers
  /\ content = [p \in Paths |-> p]
  /\ absFails = {}
  /\ maxFileSize \in 0..(MaxFileBytes - 1)
  /\ fileSize \in [Paths -> 1..MaxFileBytes]
  /\ \A p \in Paths : tree[p] # "file" => fileSize[p] = 1
  /\ HashIdle

GateSpec == GateInit /\ [][Next]_vars

\* The run together with the ticks of the progress reporter.
ReportInit == InitOver(LinkAgents, Trees)

ReportNext == Next \/ ReporterTick

ReportSpec == ReportInit /\ [][ReportNext]_vars

\* ------------------------------------------------- New and the With* setters
RECURSIVE Pow2(_)
Pow2(n) == IF n = 0 THEN 1 ELSE 2 * Pow2(n - 1)

MaxInt == Pow2(IntBits - 1) - 1
MinInt == 0 - Pow2(IntBits - 1)

\* The value of an int expression: the mathematical value wrapped to the width.
WrapInt(x) == ((x - MinInt) % Pow2(IntBits)) + MinInt

\* queueSize := batch * 2; if queueSize < 1000 { queueSize = 1000 }
DefaultQueueSize(nBatch) ==
  LET queueSize == WrapInt(nBatch * 2) IN IF queueSize < 1000 THEN 1000 ELSE queueSize

\* numWorkers := runtime.NumCPU(); if numWorkers < 4 { numWorkers = 4 }
DefaultWorkers(cpus) == IF cpus < 4 THEN 4 ELSE cpus

New(nBatch, cpus) ==
  [NumWorkers |-> DefaultWorkers(cpus), QueueSize |-> DefaultQueueSize(nBatch),
   BatchSize |-> nBatch]

\* Values of the -batch flag: around 0, around the batch for which 2*batch
\* reaches 1000, and at the ends and the middle of int.
BatchValues ==
  {MinInt, MinInt \div 2 - 1, 0 - 1, 0, 1, 499, 500, 501, MaxInt \div 2,
   MaxInt \div 2 + 1, MaxInt}

SetterArgs == {0 - 1, 0, 1, 2}

BuildInit ==
  /\ \E nBatch \in BatchValues, cpus \in 1..MaxCPU :
       /\ PipelineInit({New(nBatch, cpus)}, {<<"file">>})
       /\ calls = <<[fn |-> "New", batch |-> nBatch, cpus |-> cpus]>>
  /\ ServerAnswers
  /\ PlainFiles
  /\ HashIdle

\* Everything but the agent and the record of how it was built.
notBuildVars ==
  <<tree, content, absFails, maxFileSize, fileSize, report, faults, hashVars, offsetVars, seqVars,
    serverVars, mainVars,
    chanFlags,
    workerVars, collectorVars, senderVars, fileQueue, resultQueue, batchQueue, pcR,
    crashed, log>>

\* func (a *Agent) WithWorkers(workers int) *Agent
WithWorkers(workers) ==
  /\ Len(calls) <= MaxCalls
  /\ agent' = IF workers > 0 THEN [agent EXCEPT !.NumWorkers = workers] ELSE agent
  /\ calls' = Append(calls, [fn |-> "WithWorkers", arg |-> workers])
  /\ UNCHANGED notBuildVars

\* func (a *Agent) WithQueueSize(size int) *Agent
WithQueueSize(size) ==
  /\ Len(calls) <= MaxCalls
  /\ agent' = IF size > 0 THEN [agent EXCEPT !.QueueSize = size] ELSE agent
  /\ calls' = Append(calls, [fn |-> "WithQueueSize", arg |-> size])
  /\ UNCHANGED notBuildVars

BuildNext ==
  \/ \E workers \in SetterArgs : WithWorkers(workers)
  \/ \E size \in SetterArgs : WithQueueSize(size)

BuildSpec == BuildInit /\ [][BuildNext]_vars

\* A run in which a sendBatch call can fail in each of the ways its code
\* distinguishes.
SendInit ==
  /\ PipelineInit(LinkAgents, Trees)
  /\ AgentLiteral
  /\ faults = SendEvents
  /\ PlainFiles
  /\ HashIdle

SendSpec == SendInit /\ [][Next]_vars

\* ------------------------------------------------- the sequential Run
\* src/pkg/agent/agent.go, lines 44-85: one goroutine walks the tree, hashes
\* each file, fills the batch and sends it when full. It is run on the tree
\* after the pipeline has ended (returned, or died in a panic).
RunEnded == pcMain = "done" \/ crashed

\* filepath.Rel(a.RootDir, dir): the directory relative to the root.
Rel(d) == [of |-> d.of, abs |-> FALSE, relTo |-> "RootDir"]

SeqFileRecord(p) == [path |-> p, dir |-> Rel(Dir(p)), hash |-> hashFile(p)]

\* hashFile(path) of the sequential Run: os.Open follows a link, and io.Copy
\* from a directory fails.
SeqHashResultsOf(kind) == IF kind = "symdir" THEN {"error"} ELSE {"ok", "error"}

notSeqVars == <<runVars, hashVars, offsetVars, serverVars>>

\* var batch []FileRecord; filepath.Walk(a.RootDir, ...)
SeqStart ==
  /\ RunEnded /\ seqPc = "idle"
  /\ seqPc' = "walk"
  /\ UNCHANGED <<seqIdx, seqBatch, seqOutcome, seqSent>>
  /\ UNCHANGED notSeqVars

\* if err != nil || info.IsDir() { return nil }
SeqSkip ==
  /\ seqPc = "walk" /\ seqIdx <= Len(tree)
  /\ tree[seqIdx] = "err" \/ LstatIsDir(tree[seqIdx])
  /\ seqIdx' = seqIdx + 1
  /\ UNCHANGED <<seqPc, seqBatch, seqOutcome, seqSent>>
  /\ UNCHANGED notSeqVars

\* if len(batch) >= a.BatchSize
SeqBatchFull(b) == Len(b) >= agent.BatchSize

\* The callback on a non-directory: hashFile (an error skips the file),
\* append the record, and when the batch is full sendBatch it; an error of
\* sendBatch is returned, which ends the walk and Run.
SeqVisit ==
  /\ seqPc = "walk" /\ seqIdx <= Len(tree)
  /\ tree[seqIdx] # "err" /\ ~LstatIsDir(tree[seqIdx])
  /\ \E r \in SeqHashResultsOf(tree[seqIdx]) :
       IF r = "error"
       THEN /\ seqOutcome' = [seqOutcome EXCEPT ![seqIdx] = "hashFailed"]
            /\ seqIdx' = seqIdx + 1
            /\ UNCHANGED <<seqPc, seqBatch, seqSent>>
       ELSE LET b == Append(seqBatch, SeqFileRecord(seqIdx))
            IN  /\ seqOutcome' = [seqOutcome EXCEPT ![seqIdx] = "hashed"]
                /\ IF SeqBatchFull(b)
                   THEN \E event \in faults :
                          /\ seqSent' = Append(seqSent, [batch |-> b, err |-> sendBatch(event)])
                          /\ IF sendBatch(event) = "nil"
                             THEN /\ seqBatch' = <<>>
                                  /\ seqIdx' = seqIdx + 1
                                  /\ UNCHANGED seqPc
                             ELSE /\ seqPc' = "failed"
                                  /\ UNCHANGED <<seqBatch, seqIdx>>
                   ELSE /\ seqBatch' = b
                        /\ seqIdx' = seqIdx + 1
                        /\ UNCHANGED <<seqPc, seqSent>>
  /\ UNCHANGED notSeqVars

\* The walk has returned nil: if len(batch) > 0 { return a.sendBatch(batch) }
SeqFinish ==
  /\ seqPc = "walk" /\ seqIdx > Len(tree)
  /\ IF Len(seqBatch) > 0
     THEN \E event \in faults :
            /\ seqSent' = Append(seqSent, [batch |-> seqBatch, err |-> sendBatch(event)])
            /\ seqPc' = IF sendBatch(event) = "nil" THEN "done" ELSE "failed"
     ELSE /\ seqPc' = "done"
          /\ UNCHANGED seqSent
  /\ UNCHANGED <<seqIdx, seqBatch, seqOutcome>>
  /\ UNCHANGED notSeqVars

SeqRun == SeqStart \/ SeqSkip \/ SeqVisit \/ SeqFinish

EquivAgents ==
  [NumWorkers : 1..MaxWorkers, QueueSize : 0..MaxQueueSize, BatchSize : (0 - 1)..MaxBatchSize]

EquivInit == InitOver(EquivAgents, Trees)

EquivNext == Next \/ SeqRun

\* The pipeline and then the sequential Run, on the same tree with the same
\* BatchSize.
EquivSpec == EquivInit /\ [][EquivNext]_vars

\* ----------------------------------------------------------------- server
\* The aggregator: table files and the handler of POST /files. Requests are
\* served one after the other; every UpsertFile is one statement of the
\* database and one step here.
\*
\* The key columns of the three files the requests are about: two files of
\* one machine and one file of another machine with the path and name of
\* the first.
Keys ==
  { [machine_id |-> "m1", path |-> ".", filename |-> "a"],
    [machine_id |-> "m1", path |-> ".", filename |-> "b"],
    [machine_id |-> "m2", path |-> ".", filename |-> "a"] }

\* What a scan finds of a file: its content, and a later content of the
\* first file.
Contents ==
  { [size |-> 1, mtime |-> 1, hash |-> "h1"],
    [size |-> 2, mtime |-> 2, hash |-> "h2"] }

Changed == [machine_id |-> "m1", path |-> ".", filename |-> "a"]

\* type FileRecord struct of package record (the JSON object of one file)
UploadRecord(key, c) ==
  [machine_id |-> key.machine_id, path |-> key.path, filename |-> key.filename,
   size |-> c.size, mtime |-> c.mtime, hash |-> c.hash]

FileRecords ==
  {UploadRecord(key, c) : key \in Keys, c \in {x \in Contents : x.hash = "h1"}}
    \cup {UploadRecord(Changed, c) : c \in Contents}

\* UNIQUE (machine_id, path, filename)
KeyOf(f) == [machine_id |-> f.machine_id, path |-> f.path, filename |-> f.filename]

\* The text a body holds: a JSON array of FileRecords, the JSON value null,
\* or text that is not the JSON of a []FileRecord.
JSONTexts ==
  {[kind |-> "array", files |-> s] : s \in SeqsUpTo(FileRecords, MaxRecords)}
    \cup {[kind |-> "null", files |-> <<>>], [kind |-> "malformed", files |-> <<>>]}

\* A POST /files request: its Content-Encoding header and its body, which is
\* a text, gzip-compressed or not.
Requests == [encoding : {"gzip", ""}, gz : BOOLEAN, text : JSONTexts]

\* if r.Header.Get("Content-Encoding") == "gzip" { gz, err := gzip.NewReader(r.Body) ...
\* What the handler reads from: gzip.NewReader fails on a body that is not a
\* gzip stream; without the header the body is read as it is, and a gzip
\* stream is not JSON.
ReaderOf(r) ==
  IF r.encoding = "gzip"
  THEN IF r.gz THEN [err |-> "nil", text |-> r.text]
               ELSE [err |-> "gzip", text |-> [kind |-> "malformed", files |-> <<>>]]
  ELSE IF r.gz THEN [err |-> "nil", text |-> [kind |-> "malformed", files |-> <<>>]]
               ELSE [err |-> "nil", text |-> r.text]

\* json.NewDecoder(reader).Decode(&files): null decodes as the nil slice.
Decode(text) ==
  IF text.kind = "malformed" THEN [err |-> "json", files |-> <<>>]
  ELSE [err |-> "nil", files |-> text.files]

\* The handler up to its loop: the records to upsert, or the error answered.
Decoded(r) ==
  IF ReaderOf(r).err # "nil" THEN [err |-> "gzip", files |-> <<>>]
  ELSE Decode(ReaderOf(r).text)

\* The row of table files with the key of arg, if there is one.
Conflict(table, arg) == {row \in table : KeyOf(row) = KeyOf(arg)}

NewRow(id, arg) ==
  [id |-> id, machine_id |-> arg.machine_id, path |-> arg.path, filename |-> arg.filename,
   size |-> arg.size, mtime |-> arg.mtime, hash |-> arg.hash]

\* An upsert that leaves a row that is there as it is (ON CONFLICT DO NOTHING).
UpsertFileKeepsRow(table, id, arg) ==
  IF Conflict(table, arg) # {} THEN table ELSE table \cup {NewRow(id, arg)}

\* INSERT INTO files ... ON CONFLICT (machine_id, path, filename)
\* DO UPDATE SET size = EXCLUDED.size, mtime = EXCLUDED.mtime, hash = EXCLUDED.hash
\* id is the id (and creation time) a new row gets.
UpsertFile(table, id, arg) ==
  IF Conflict(table, arg) # {}
  THEN (table \ Conflict(table, arg))
         \cup {[row EXCEPT !.size = arg.size, !.mtime = arg.mtime, !.hash = arg.hash]
                 : row \in Conflict(table, arg)}
  ELSE table \cup {NewRow(id, arg)}

\* SELECT hash, COUNT(*) ... FROM files GROUP BY hash HAVING COUNT(*) > 1
FindDuplicateFiles(table) ==
  { [hash |-> h, duplicate_count |-> Cardinality({row \in table : row.hash = h}),
     paths |-> {<<row.path, row.filename>> : row \in {x \in table : x.hash = h}}]
    : h \in {row.hash : row \in {x \in table :
                 Cardinality({y \in table : y.hash = x.hash}) > 1}} }

Idle == [pc |-> "idle", files |-> <<>>, idx |-> 0, failed |-> {}, before |-> {}]

\* A handler that reports a failed UpsertFile.
UploadStatusOfUpserts(failed) == IF failed = {} THEN 204 ELSE 500

\* _ = q.UpsertFile(...) ... w.WriteHeader(http.StatusNoContent)
UploadStatus(failed) == 204

\* The answer as the agent's sendBatch tells it apart:
\* if resp.StatusCode != http.StatusNoContent
StatusEvent(status) == IF status = 204 THEN "status204" ELSE "statusOther"

notServerVars == <<runVars, hashVars, offsetVars, seqVars>>

\* UploadFilesHandler up to its loop (lines 28-43): a request arrives; the
\* handler answers 400 when gzip.NewReader or Decode fails.
UploadReceive ==
  /\ handler.pc = "idle"
  /\ \E r \in Requests :
       IF Decoded(r).err # "nil"
       THEN /\ requests' = <<[err |-> Decoded(r).err, files |-> <<>>, failed |-> {},
                              status |-> 400]>>
            /\ UNCHANGED handler
       ELSE /\ handler' = [pc |-> "upserting", files |-> Decoded(r).files, idx |-> 1,
                            failed |-> {}, before |-> files]
            /\ UNCHANGED requests
  /\ UNCHANGED <<files, nextId>>
  /\ UNCHANGED notServerVars

\* One turn of the loop (lines 45-58): UpsertFile succeeds, or fails and
\* leaves the table as it is; its error is dropped.
UploadUpsert ==
  /\ handler.pc = "upserting"
  /\ handler.idx <= Len(handler.files)
  /\ \E err \in {"nil", "error"} :
       IF err = "nil"
       THEN /\ files' = UpsertFile(files, nextId, handler.files[handler.idx])
            /\ nextId' = IF Conflict(files, handler.files[handler.idx]) = {}
                          THEN nextId + 1 ELSE nextId
            /\ handler' = [handler EXCEPT !.idx = @ + 1]
       ELSE /\ UNCHANGED <<files, nextId>>
            /\ handler' = [handler EXCEPT !.idx = @ + 1, !.failed = @ \cup {handler.idx}]
  /\ UNCHANGED requests
  /\ UNCHANGED notServerVars

\* w.WriteHeader(http.StatusNoContent) (line 60)
UploadRespond ==
  /\ handler.pc = "upserting"
  /\ handler.idx > Len(handler.files)
  /\ requests' = <<[err |-> "nil", files |-> handler.files, failed |-> handler.failed,
                     status |-> UploadStatus(handler.failed)]>>
  /\ handler' = Idle
  /\ UNCHANGED <<files, nextId>>
  /\ UNCHANGED notServerVars

ServerInit ==
  InitOver({[NumWorkers |-> 1, QueueSize |-> 0, BatchSize |-> 1]}, {<<"file">>})

ServerNext == UploadReceive \/ UploadUpsert \/ UploadRespond

ServerSpec == ServerInit /\ [][ServerNext]_vars

\* ---------------------------------------------------------------- hashing
\* One file of size hSize, unchanged while it is hashed, going through the
\* worker's choice of strategy and then hashFile or hashLargeFile. A second
\* file of the same size, equal to the first except for the byte at offset
\* hDiff, is hashed along with it: hInputsDiffer tells whether the bytes
\* written to the two digests differ.
Min(a, b) == IF a < b THEN a ELSE b

headSize == 1024 * 1024
tailSize == 1024 * 1024
bufLen == 64 * 1024

\* A sample loop that takes one sample fewer.
numSamplesFewer == 10 - 1

numSamples == 10

\* A threshold test that sends a file of exactly 10 MiB to hashFile.
SmallFileInclusive(size) == size <= 10 * 1024 * 1024

\* info.Size() < 10*1024*1024
SmallFile(size) == size < 10 * 1024 * 1024

\* The budget with no sampling up to headSize + tailSize above 10 MiB.
MiddleBudgetFrom12MiB(size) ==
  IF size > 100 * 1024 * 1024 THEN 10 * 1024 * 1024
  ELSE IF size > 10 * 1024 * 1024 + headSize + tailSize THEN size \div 10
  ELSE 0

\* middleSize
MiddleBudget(size) ==
  IF size > 100 * 1024 * 1024 THEN 10 * 1024 * 1024
  ELSE IF size > 10 * 1024 * 1024 THEN size \div 10
  ELSE 0

\* A sample that reads the whole budget.
SampleSizeWholeBudget(middleSize) == middleSize

\* sampleSize := middleSize / int64(numSamples)
SampleSize(middleSize) == middleSize \div numSamples

\* pos := middleStart + (middleRange * int64(i) / int64(numSamples))
SamplePos(size, i) ==
  LET middleStart == headSize
      middleEnd == size - tailSize
      middleRange == middleEnd - middleStart
  IN  middleStart + ((middleRange * i) \div numSamples)

\* binary.LittleEndian.PutUint64 on n bytes: least significant byte first.
RECURSIVE PutUintLE(_, _)
PutUintLE(v, n) ==
  IF n = 0 THEN <<>> ELSE <<v % 256>> \o PutUintLE(v \div 256, n - 1)

SizeMarks ==
  {1, 10 * 1024 * 1024, 10 * 1024 * 1024 + headSize + tailSize, 100 * 1024 * 1024,
   150 * 1024 * 1024}

HashSizes ==
  {s \in {b + d : b \in SizeMarks, d \in (0 - SizeSlack)..SizeSlack} : s >= 1}

\* Offsets at which the second file may differ: the ends of the file, the
\* two sides of the head and tail boundaries and of the edges of some
\* samples, and offsets in the middle.
DiffOffsets(size) ==
  LET edges ==
        {0, size - 1, headSize, size - tailSize, size \div 2, size \div 2 + headSize}
          \cup {SamplePos(size, i) : i \in {1, numSamples - 1}}
          \cup {SamplePos(size, i) + SampleSize(MiddleBudget(size)) :
                  i \in {0, 1, numSamples - 1}}
  IN  {o \in {e + d : e \in edges, d \in {0 - 1, 0}} : 0 <= o /\ o < size}

FileBytes(from, to) == [from |-> from, to |-> to, lit |-> <<>>]
Literal(bytes) == [from |-> 0, to |-> 0, lit |-> bytes]

HashInit ==
  /\ PipelineInit({[NumWorkers |-> 1, QueueSize |-> 0, BatchSize |-> 1]}, {<<"file">>})
  /\ AgentLiteral
  /\ ServerAnswers
  /\ PlainFiles
  /\ OffsetIdle
  /\ hSize \in HashSizes
  /\ hDiff \in DiffOffsets(hSize)
  /\ hPc = "stat" /\ hStrategy = "none"
  /\ hMiddle = 0 /\ hPos = 0 /\ hRemaining = 0 /\ hI = 0
  /\ hFed = <<>>
  /\ hInputsDiffer = FALSE
  /\ hPrev = <<>>

\* Everything the hashing of the one file leaves alone.
pipelineVars == <<runVars, offsetVars, seqVars, serverVars>>

\* if info.Size() < 10*1024*1024 { hashFile } else { hashLargeFile }
HashChoose ==
  /\ hPc = "stat"
  /\ IF SmallFile(hSize)
     THEN hStrategy' = "hashFile" /\ hPc' = "copy"
     ELSE hStrategy' = "hashLargeFile" /\ hPc' = "budget"
  /\ UNCHANGED <<hSize, hDiff, hMiddle, hPos, hRemaining, hI, hFed, hInputsDiffer>>
  /\ UNCHANGED <<pipelineVars, hPrev>>

\* hashFile: io.Copy(h, f) writes every byte of the file to the digest.
HashFileCopy ==
  /\ hPc = "copy"
  /\ hFed' = <<FileBytes(0, hSize)>>
  /\ hPos' = hSize
  /\ hInputsDiffer' = (0 <= hDiff /\ hDiff < hSize)
  /\ hPc' = "done"
  /\ UNCHANGED <<hSize, hDiff, hStrategy, hMiddle, hRemaining, hI>>
  /\ UNCHANGED <<pipelineVars, hPrev>>

\* hashLargeFile up to the first read loop: open, the sizes, the buffer.
HashBudget ==
  /\ hPc = "budget"
  /\ hMiddle' = MiddleBudget(hSize)
  /\ hPos' = 0
  /\ hRemaining' = headSize
  /\ hFed' = Append(hFed, FileBytes(0, 0))
  /\ hPc' = "readHead"
  /\ UNCHANGED <<hSize, hDiff, hStrategy, hI, hInputsDiffer>>
  /\ UNCHANGED <<pipelineVars, hPrev>>

\* io.ReadAtLeast(f, buf[:n], int(n)) at offset pos of a file of hSize
\* bytes: n bytes, or the bytes left with io.ErrUnexpectedEOF, or none with
\* io.EOF.
ReadCount(pos, n) == IF hSize - pos >= n THEN n ELSE IF hSize > pos THEN hSize - pos ELSE 0

\* One iteration of a read loop `for remaining > 0 { ... }`: read up to a
\* buffer, write what was read to the digest, and leave the loop (to `after`)
\* when nothing was read, at the end of the file, or when remaining is 0.
ReadLoopStep(again, after) ==
  LET n == Min(hRemaining, bufLen)
      read == ReadCount(hPos, n)
      last == hFed[Len(hFed)]
  IN  /\ hRemaining > 0
      /\ hFed' = [hFed EXCEPT ![Len(hFed)] = FileBytes(last.from, last.to + read)]
      /\ hInputsDiffer' = (hInputsDiffer \/ (hPos <= hDiff /\ hDiff < hPos + read))
      /\ hPos' = hPos + read
      /\ hRemaining' = hRemaining - read
      /\ hPc' = IF read = 0 \/ read < n \/ hRemaining - read = 0 THEN after ELSE again

HashReadHead ==
  /\ hPc = "readHead"
  /\ ReadLoopStep("readHead", "middleTest")
  /\ UNCHANGED <<hSize, hDiff, hStrategy, hMiddle, hI>>
  /\ UNCHANGED <<pipelineVars, hPrev>>

\* if middleSize > 0 && size > headSize+tailSize { ... i := 0 ... }
HashMiddleTest ==
  /\ hPc = "middleTest"
  /\ hI' = 0
  /\ hPc' = IF hMiddle > 0 /\ hSize > headSize + tailSize THEN "seekSample" ELSE "tailTest"
  /\ UNCHANGED <<hSize, hDiff, hStrategy, hMiddle, hPos, hRemaining, hFed, hInputsDiffer>>
  /\ UNCHANGED <<pipelineVars, hPrev>>

\* for i < numSamples: f.Seek(pos, 0); remaining := sampleSize
HashSeekSample ==
  /\ hPc = "seekSample"
  /\ IF hI < numSamples
     THEN /\ hPos' = SamplePos(hSize, hI)
          /\ hRemaining' = SampleSize(hMiddle)
          /\ hFed' = Append(hFed, FileBytes(SamplePos(hSize, hI), SamplePos(hSize, hI)))
          /\ hPc' = IF SampleSize(hMiddle) > 0 THEN "readSample" ELSE "nextSample"
     ELSE /\ hPc' = "tailTest"
          /\ UNCHANGED <<hPos, hRemaining, hFed>>
  /\ UNCHANGED <<hSize, hDiff, hStrategy, hMiddle, hI, hInputsDiffer>>
  /\ UNCHANGED <<pipelineVars, hPrev>>

HashReadSample ==
  /\ hPc = "readSample"
  /\ ReadLoopStep("readSample", "nextSample")
  /\ UNCHANGED <<hSize, hDiff, hStrategy, hMiddle, hI>>
  /\ UNCHANGED <<pipelineVars, hPrev>>

\* i++
HashNextSample ==
  /\ hPc = "nextSample"
  /\ hI' = hI + 1
  /\ hPc' = "seekSample"
  /\ UNCHANGED <<hSize, hDiff, hStrategy, hMiddle, hPos, hRemaining, hFed, hInputsDiffer>>
  /\ UNCHANGED <<pipelineVars, hPrev>>

\* if size > headSize && tailSize > 0 { f.Seek(-tailSize, 2); remaining := tailSize }
HashSeekTail ==
  /\ hPc = "tailTest"
  /\ IF hSize > headSize /\ tailSize > 0
     THEN /\ hPos' = hSize - tailSize
          /\ hRemaining' = tailSize
          /\ hFed' = Append(hFed, FileBytes(hSize - tailSize, hSize - tailSize))
          /\ hPc' = "readTail"
     ELSE /\ hPc' = "size"
          /\ UNCHANGED <<hPos, hRemaining, hFed>>
  /\ UNCHANGED <<hSize, hDiff, hStrategy, hMiddle, hI, hInputsDiffer>>
  /\ UNCHANGED <<pipelineVars, hPrev>>

HashReadTail ==
  /\ hPc = "readTail"
  /\ ReadLoopStep("readTail", "size")
  /\ UNCHANGED <<hSize, hDiff, hStrategy, hMiddle, hI>>
  /\ UNCHANGED <<pipelineVars, hPrev>>

\* A hashLargeFile that returns the digest without writing the size to it.
HashWriteNoSize ==
  /\ hPc = "size"
  /\ hPc' = "done"
  /\ UNCHANGED <<hSize, hDiff, hStrategy, hMiddle, hPos, hRemaining, hI, hFed, hInputsDiffer>>
  /\ UNCHANGED <<pipelineVars, hPrev>>

\* binary.LittleEndian.PutUint64(sizeBuf, uint64(size)); h.Write(sizeBuf)
HashWriteSize ==
  /\ hPc = "size"
  /\ hFed' = Append(hFed, Literal(PutUintLE(hSize, 8)))
  /\ hPc' = "done"
  /\ UNCHANGED <<hSize, hDiff, hStrategy, hMiddle, hPos, hRemaining, hI, hInputsDiffer>>
  /\ UNCHANGED <<pipelineVars, hPrev>>

\* os.Open, a Seek or a read fails with an error other than the end of the
\* file: the function returns "", err.
HashIOError ==
  /\ hPc \in {"copy", "budget", "readHead", "seekSample", "readSample", "tailTest",
              "readTail"}
  /\ hPc' = "failed"
  /\ UNCHANGED <<hSize, hDiff, hStrategy, hMiddle, hPos, hRemaining, hI, hFed, hInputsDiffer>>
  /\ UNCHANGED <<pipelineVars, hPrev>>

HashNext ==
  \/ HashChoose
  \/ HashFileCopy
  \/ HashBudget
  \/ HashReadHead
  \/ HashMiddleTest
  \/ HashSeekSample
  \/ HashReadSample
  \/ HashNextSample
  \/ HashSeekTail
  \/ HashReadTail
  \/ HashWriteSize
  \/ HashIOError

HashSpec == HashInit /\ [][HashNext]_vars

\* The worker's next iteration: it has emitted the record of the file it
\* hashed and receives the path of another file, of any size.
NextFileFrom(sizes) ==
  /\ hPc = "done"
  /\ hPrev = <<>>
  /\ hPrev' = <<[size |-> hSize, strategy |-> hStrategy, fed |-> hFed]>>
  /\ hSize' \in sizes
  /\ hDiff' = 0
  /\ hPc' = "stat" /\ hStrategy' = "none"
  /\ hMiddle' = 0 /\ hPos' = 0 /\ hRemaining' = 0 /\ hI' = 0
  /\ hFed' = <<>>
  /\ hInputsDiffer' = FALSE
  /\ UNCHANGED pipelineVars

HashNextFile == NextFileFrom(HashSizes)

PairInit == HashInit /\ hDiff = 0

PairNext == HashNext \/ HashNextFile

\* A worker hashing two files one after the other.
PairSpec == PairInit /\ [][PairNext]_vars

\* Sizes of small files that have as many bytes as hashLargeFile writes to
\* the digest for a file of 10 MiB (head, tail and the 8 bytes of the size)
\* or for one of 12 MiB (ten samples more), give or take SizeSlack.
InputLengths ==
  LET sampled == {10 * 1024 * 1024, 10 * 1024 * 1024 + headSize + tailSize}
  IN  {headSize + numSamples * SampleSize(MiddleBudget(s)) + tailSize + 8 + d :
         s \in sampled, d \in (0 - SizeSlack)..SizeSlack}

MixSizes == HashSizes \cup InputLengths

MixInit ==
  /\ PipelineInit({[NumWorkers |-> 1, QueueSize |-> 0, BatchSize |-> 1]}, {<<"file">>})
  /\ AgentLiteral
  /\ ServerAnswers
  /\ PlainFiles
  /\ OffsetIdle
  /\ hSize \in MixSizes
  /\ hDiff = 0
  /\ hPc = "stat" /\ hStrategy = "none"
  /\ hMiddle = 0 /\ hPos = 0 /\ hRemaining = 0 /\ hI = 0
  /\ hFed = <<>>
  /\ hInputsDiffer = FALSE
  /\ hPrev = <<>>

MixNextFile == NextFileFrom(MixSizes)

MixNext == HashNext \/ MixNextFile

\* A worker hashing two files one after the other, small or large.
MixSpec == MixInit /\ [][MixNext]_vars

\* -------------------------------------- hashLargeFile in int64 arithmetic
\* A number of any magnitude is the sequence of its digits in base 2^16,
\* least significant first, without a zero as its last digit (0 is <<>>).
Base == 256 * 256

Digit(x, k) == IF k <= Len(x) THEN x[k] ELSE 0

RECURSIVE Norm(_)
Norm(x) == IF x # <<>> /\ x[Len(x)] = 0 THEN Norm(SubSeq(x, 1, Len(x) - 1)) ELSE x

RECURSIVE BigOf(_)
BigOf(n) == IF n = 0 THEN <<>> ELSE <<n % Base>> \o BigOf(n \div Base)

RECURSIVE AddFrom(_, _, _, _)
AddFrom(x, y, k, carry) ==
  IF k > Len(x) /\ k > Len(y)
  THEN IF carry = 0 THEN <<>> ELSE <<carry>>
  ELSE LET s == Digit(x, k) + Digit(y, k) + carry
       IN  <<s % Base>> \o AddFrom(x, y, k + 1, s \div Base)

BigAdd(x, y) == AddFrom(x, y, 1, 0)

RECURSIVE SubFrom(_, _, _, _)
SubFrom(x, y, k, borrow) ==
  IF k > Len(x) THEN <<>>
  ELSE LET d == Digit(x, k) - Digit(y, k) - borrow
       IN  IF d < 0 THEN <<d + Base>> \o SubFrom(x, y, k + 1, 1)
           ELSE <<d>> \o SubFrom(x, y, k + 1, 0)

\* x - y, for x >= y
BigSub(x, y) == Norm(SubFrom(x, y, 1, 0))

RECURSIVE MulFrom(_, _, _, _)
MulFrom(x, m, k, carry) ==
  IF k > Len(x) THEN BigOf(carry)
  ELSE LET p == x[k] * m + carry
       IN  <<p % Base>> \o MulFrom(x, m, k + 1, p \div Base)

\* x * m, for a natural number m below Base
BigMul(x, m) == Norm(MulFrom(x, m, 1, 0))

RECURSIVE DivFrom(_, _, _, _)
DivFrom(x, m, k, rem) ==
  IF k = 0 THEN <<>>
  ELSE LET part == rem * Base + x[k]
       IN  DivFrom(x, m, k - 1, part % m) \o <<part \div m>>

\* floor(x / m), for a natural number m in 1..Base-1
BigDiv(x, m) == Norm(DivFrom(x, m, Len(x), 0))

RECURSIVE LessFrom(_, _, _)
LessFrom(x, y, k) ==
  IF k = 0 THEN FALSE
  ELSE IF x[k] # y[k] THEN x[k] < y[k] ELSE LessFrom(x, y, k - 1)

BigLess(x, y) == IF Len(x) # Len(y) THEN Len(x) < Len(y) ELSE LessFrom(x, y, Len(x))
BigLeq(x, y) == ~BigLess(y, x)
BigMin(x, y) == IF BigLess(x, y) THEN x ELSE y

Two63 == [k \in 1..4 |-> IF k = 4 THEN Base \div 2 ELSE 0]
Two64 == [k \in 1..5 |-> IF k = 5 THEN 1 ELSE 0]
MaxInt64 == BigSub(Two63, BigOf(1))

\* The int64 that holds the low 64 bits of x (two's complement), as a sign
\* and a magnitude.
Int64(x) ==
  LET w == Norm([k \in 1..4 |-> Digit(x, k)])
  IN  IF Digit(w, 4) >= Base \div 2
      THEN [neg |-> TRUE, mag |-> BigSub(Two64, w)]
      ELSE [neg |-> FALSE, mag |-> w]

\* middleSize, for a size of any magnitude
MiddleBudget64(size) ==
  IF BigLess(BigOf(100 * 1024 * 1024), size) THEN BigOf(10 * 1024 * 1024)
  ELSE IF BigLess(BigOf(10 * 1024 * 1024), size) THEN BigDiv(size, 10)
  ELSE <<>>

\* sampleSize := middleSize / int64(numSamples)
SampleSize64(middleSize) == BigDiv(middleSize, numSamples)

\* middleRange * int64(i): an int64 multiplication
Int64Product(x, m) == Int64(BigMul(x, m))

\* pos := middleStart + (middleRange * int64(i) / int64(numSamples)); the
\* division truncates toward zero.
SamplePos64(size, i) ==
  LET middleStart == BigOf(headSize)
      middleEnd == BigSub(size, BigOf(tailSize))
      middleRange == BigSub(middleEnd, middleStart)
      prod == Int64Product(middleRange, i)
      quot == BigDiv(prod.mag, numSamples)
  IN  IF ~prod.neg THEN [neg |-> FALSE, mag |-> BigAdd(middleStart, quot)]
      ELSE IF BigLeq(quot, middleStart)
           THEN [neg |-> FALSE, mag |-> BigSub(middleStart, quot)]
           ELSE [neg |-> TRUE, mag |-> BigSub(quot, middleStart)]

\* What the read loop of a sample gets after a seek to pos: sampleSize bytes,
\* or the bytes up to the end of the file when there are fewer.
SampleRead(size, pos, sampleSize) ==
  IF BigLess(pos, size) THEN BigMin(sampleSize, BigSub(size, pos)) ELSE <<>>

\* The largest size for which middleRange * 9 is an int64.
LastSafeSize == BigAdd(BigDiv(MaxInt64, numSamples - 1), BigOf(headSize + tailSize))

\* Sizes hashLargeFile is called with: those of HashSizes, sizes around the
\* one at which middleRange * int64(i) leaves int64, a quarter of the int64
\* range, and the largest int64.
OffsetSizes ==
  {BigOf(s) : s \in {t \in HashSizes : ~SmallFile(t)}}
    \cup {BigAdd(LastSafeSize, BigOf(d)) : d \in 0..SizeSlack}
    \cup {BigSub(LastSafeSize, BigOf(d)) : d \in 0..SizeSlack}
    \cup {BigDiv(Two63, 4), MaxInt64}

OffsetInit ==
  /\ PipelineInit({[NumWorkers |-> 1, QueueSize |-> 0, BatchSize |-> 1]}, {<<"file">>})
  /\ AgentLiteral
  /\ ServerAnswers
  /\ PlainFiles
  /\ NoHashing
  /\ oSize \in OffsetSizes
  /\ oPc = "head" /\ oI = 0 /\ oSamples = <<>>

\* if middleSize > 0 && size > headSize+tailSize, after the head was read
OffsetMiddleTest ==
  /\ oPc = "head"
  /\ oPc' = IF /\ MiddleBudget64(oSize) # <<>>
               /\ BigLess(BigOf(headSize + tailSize), oSize)
            THEN "sample" ELSE "tail"
  /\ UNCHANGED <<oSize, oI, oSamples>>
  /\ UNCHANGED <<runVars, hashVars, seqVars, serverVars>>

\* One turn of the sample loop: pos, f.Seek(pos, 0), which fails for a
\* negative pos, and the read loop.
OffsetSample ==
  /\ oPc = "sample" /\ oI < numSamples
  /\ LET pos == SamplePos64(oSize, oI)
         sampleSize == SampleSize64(MiddleBudget64(oSize))
     IN  IF pos.neg
         THEN /\ oPc' = "seekError"
              /\ UNCHANGED <<oI, oSamples>>
         ELSE /\ oSamples' = Append(oSamples,
                               [pos |-> pos.mag,
                                read |-> SampleRead(oSize, pos.mag, sampleSize)])
              /\ oI' = oI + 1
              /\ UNCHANGED oPc
  /\ UNCHANGED oSize
  /\ UNCHANGED <<runVars, hashVars, seqVars, serverVars>>

\* i < numSamples fails: on to the tail.
OffsetSamplesDone ==
  /\ oPc = "sample" /\ oI = numSamples
  /\ oPc' = "tail"
  /\ UNCHANGED <<oSize, oI, oSamples>>
  /\ UNCHANGED <<runVars, hashVars, seqVars, serverVars>>

\* The tail and the size are written and the digest is returned.
OffsetFinish ==
  /\ oPc = "tail"
  /\ oPc' = "done"
  /\ UNCHANGED <<oSize, oI, oSamples>>
  /\ UNCHANGED <<runVars, hashVars, seqVars, serverVars>>

OffsetNext == OffsetMiddleTest \/ OffsetSample \/ OffsetSamplesDone \/ OffsetFinish

OffsetSpec == OffsetInit /\ [][OffsetNext]_vars


\* ================================================================ claims
Range(q) == {q[i] : i \in 1..Len(q)}

RECURSIVE Flatten(_)
Flatten(qq) == IF qq = <<>> THEN <<>> ELSE Head(qq) \o Flatten(Tail(qq))

IsPrefix(a, b) == Len(a) <= Len(b) /\ a = SubSeq(b, 1, Len(a))

Occurrences(x, q) == Cardinality({i \in 1..Len(q) : q[i] = x})

Done == pcMain = "done"

\* Paths the Walker pushed onto the file queue.
Enqueued == dequeued \cup Range(fileQueue)

\* Workers that hold a dequeued path not yet counted as processed.
Uncounted == {w \in Workers : pcW[w] \in {"acquire", "stat", "hash", "emit", "count"}}

Hashed == {p \in Paths : outcome[p] = "hashed"}
Skipped == {p \in Paths : outcome[p] \in {"statSkipped", "hashFailed"}}

\* C1: every path a worker dequeued has incremented processed exactly once
\* as soon as its iteration is past the increment, whether it was emitted or
\* skipped; when Run finishes, processed equals the number of paths the
\* Walker enqueued.
C1_ProcessedOncePerPath ==
  /\ processedFiles = Cardinality(dequeued) - Cardinality(Uncounted)
  /\ Done => processedFiles = Cardinality(Enqueued)

C1_Witness ==
  /\ Done
  /\ processedFiles = 3
  /\ \E p \in Paths : outcome[p] = "statSkipped"
  /\ \E p \in Paths : outcome[p] = "hashFailed"
  /\ \E p \in Paths : FileRecord(p) \in Range(emitted)

\* C2: the records pushed onto the result queue are exactly the dequeued
\* paths whose stat succeeded on a non-directory and whose hash succeeded, one
\* record each; a skipped path never has a record.
C2_RecordsAreHashedPaths ==
  /\ Len(emitted) = Cardinality(Hashed) - Cardinality({w \in Workers : pcW[w] = "emit"})
  /\ \A i \in 1..Len(emitted) : emitted[i].path \in Hashed \cap dequeued
  /\ \A i, j \in 1..Len(emitted) : emitted[i] = emitted[j] => i = j
  /\ Done => Len(emitted) = Cardinality(Hashed)

C2_Witness ==
  /\ Done
  /\ Len(emitted) = 1
  /\ Cardinality(Skipped) = 2
  /\ \E p \in Paths : outcome[p] = "hashFailed"

CeilDiv(n, b) == (n + b - 1) \div b

\* C3: with batch size B >= 1 and N records emitted, when Run finishes the
\* Sender was handed exactly ceil(N/B) batches, every batch but the last of
\* B records and the last of N mod B records (B when B divides N > 0); no
\* batch when N = 0.
C3_BatchCountAndSizes ==
  (Done /\ agent.BatchSize >= 1) =>
    LET N == Len(emitted)
        B == agent.BatchSize
        k == Len(sent)
    IN  /\ k = CeilDiv(N, B)
        /\ \A i \in 1..(k - 1) : Len(sent[i].batch) = B
        /\ k > 0 => Len(sent[k].batch) = (IF N % B = 0 THEN B ELSE N % B)

C3_Witness ==
  /\ Done
  /\ agent.BatchSize = 2
  /\ Len(emitted) = 3
  /\ Len(sent) = 2
  /\ Len(sent[2].batch) = 1

\* C4: the collector neither drops, duplicates nor reorders: the batches it
\* pushed, concatenated in push order and followed by its open batch buffer,
\* are the records it popped, in order; when it has exited the pushed
\* batches alone are all the records it popped.
C4_CollectorKeepsEveryRecord ==
  /\ pcC # "exit" => Flatten(pushed) \o batch = popped
  /\ pcC = "exit" => Flatten(pushed) = popped

C4_Witness ==
  /\ pcC = "exit"
  /\ Len(popped) = 3
  /\ Len(pushed) = 2
  /\ Len(pushed[2]) = 1

SentBatches == [i \in 1..Len(sent) |-> sent[i].batch]

\* C5: every batch pushed onto the batch queue is passed to sendBatch exactly
\* once, in push order, failed or not: the batches already passed, the one
\* the Sender holds and the ones still queued are the pushed batches; when
\* Run finishes all pushed batches were passed once.
C5_AtMostOnceNoRetry ==
  /\ SentBatches \o (IF pcS = "send" THEN <<cur>> ELSE <<>>) \o batchQueue = pushed
  /\ \A i, j \in 1..Len(sent) : sent[i].batch = sent[j].batch => i = j
  /\ Done => SentBatches = pushed

C5_Witness ==
  /\ Done
  /\ Len(sent) = 3
  /\ sent[1].err = "error"
  /\ sent[2].err = "nil"
  /\ sent[3].err = "error"


ExpectedLog ==
  <<"fileQueueClosed">> \o [i \in 1..agent.NumWorkers |-> "workerExit"]
    \o <<"resultQueueClosed", "collectorExit", "batchQueueClosed", "senderExit",
         "progressStop", "summaryReturn">>

\* C6: the shutdown events of Run occur in exactly this order: the walk has
\* finished and the file queue is closed; every worker exits; the result
\* queue is closed; the Collector exits; the batch queue is closed; the
\* Sender exits; the reporter is signalled; the summary is emitted and Run
\* returns.
C6_ShutdownOrder ==
  /\ IsPrefix(log, ExpectedLog)
  /\ fileClosed => walkIdx > Len(tree)
  /\ Done => log = ExpectedLog

C6_Witness ==
  /\ Done
  /\ agent.NumWorkers = 2
  /\ Len(sent) = 2
  /\ log = ExpectedLog

WalkerFinished == pcMain \notin {"count", "start", "walk", "queued"}

\* C7: a stage has exited only if its input queue is closed and empty, and a
\* queue is closed only when its producers are finished: the file queue
\* after the walk, the result queue after every worker has exited, the batch
\* queue after the Collector has exited; no send ever hits a closed queue.
C7_CloseDrivenShutdown ==
  /\ \A w \in Workers : pcW[w] = "exit" => (fileClosed /\ Len(fileQueue) = 0)
  /\ pcC \in {"flush", "exit"} => (resultClosed /\ Len(resultQueue) = 0)
  /\ pcS = "exit" => (batchClosed /\ Len(batchQueue) = 0)
  /\ fileClosed => WalkerFinished
  /\ resultClosed => \A w \in Workers : pcW[w] = "exit"
  /\ batchClosed => pcC = "exit"
  /\ crashed => agent.BatchSize < 0

C7_Witness ==
  /\ pcS = "exit"
  /\ pcC = "exit"
  /\ \A w \in Workers : pcW[w] = "exit"
  /\ agent.NumWorkers = 2
  /\ agent.QueueSize = 0
  /\ Len(sent) = 3

\* C8: for every worker count >= 1, queue size >= 0 and batch size, under
\* fair scheduling Run eventually reaches Done.
C8_EventuallyDone == <>Done

\* C9: when every batch was sent successfully, every record a worker emitted
\* is in exactly one transmitted batch by the time Run returns.
C9_EveryRecordTransmittedOnce ==
  (Done /\ \A i \in 1..Len(sent) : sent[i].err = "nil") =>
    /\ \A r \in Range(emitted) : Occurrences(r, Flatten(SentBatches)) = 1
    /\ Len(Flatten(SentBatches)) = Len(emitted)

C9_Witness ==
  /\ Done
  /\ \A i \in 1..Len(sent) : sent[i].err = "nil"
  /\ Len(emitted) = 3
  /\ Len(sent) = 2

FileEntries == {p \in Paths : tree[p] # "err" /\ ~LstatIsDir(tree[p])}

\* C10: with a readable root Run returns nil whatever stat, hash and send
\* failures happened, and by then every file of the tree was enqueued and
\* processed and every path that was hashed has its record in a batch handed
\* to sendBatch.
C10_FailuresNeverAbortRun ==
  (Done /\ tree[1] # "err") =>
    /\ runResult = "nil"
    /\ dequeued = FileEntries
    /\ \A p \in FileEntries : outcome[p] \in {"statSkipped", "hashFailed", "hashed"}
    /\ processedFiles = Cardinality(FileEntries)
    /\ \A p \in Hashed : FileRecord(p) \in Range(Flatten(SentBatches))

C10_Witness ==
  /\ Done
  /\ tree[1] = "dir"
  /\ runResult = "nil"
  /\ \E p \in Paths : outcome[p] = "statSkipped"
  /\ \E i \in 1..Len(sent) : sent[i].err = "error"
  /\ \E i \in 1..Len(sent) : sent[i].err = "nil"

RootUnreadable == tree[1] = "err"

StagesExited ==
  /\ \A w \in Workers : pcW[w] = "exit"
  /\ pcC = "exit"
  /\ pcS = "exit"

\* C11: when the root itself cannot be traversed, Run returns a non-nil
\* error to its caller, and it returns only after the workers, the Collector
\* and the Sender have all exited.
C11_RootErrorSurfaced ==
  /\ (Done /\ RootUnreadable) => runResult = "walk error"
  /\ runResult # "none" => StagesExited

RegularFiles == {p \in Paths : tree[p] = "file"}
LinksToDirs == {p \in Paths : tree[p] = "symdir"}

\* Sends on the file queue the Walker has completed.
WalkerSends == queuedFiles + (IF pcMain = "queued" THEN 1 ELSE 0)

\* C12 (as stated): the paths on the file queue are regular files only, and
\* the finished walk has enqueued exactly the regular files.
C12_OnlyRegularFilesEnqueued ==
  /\ Enqueued \subseteq RegularFiles
  /\ WalkerFinished => Enqueued = RegularFiles

\* C12 (amended): the Walker enqueues exactly the entries Lstat reports
\* without error as non-directories, each once: never a directory or an
\* entry reported with an error, but a symbolic link that refers to a
\* directory is enqueued like a file, and it is the worker's os.Stat that
\* skips it, so no record is emitted for it. An entry reported with an error
\* does not stop the walk: the finished walk has visited every entry.
C12_WalkerEnqueuesNonDirs ==
  /\ Enqueued \subseteq FileEntries
  /\ WalkerSends = Cardinality(Enqueued)
  /\ Len(fileQueue) + Cardinality(dequeued) = WalkerSends
  /\ (WalkerFinished /\ Alive) =>
       /\ walkIdx > Len(tree)
       /\ Enqueued = FileEntries
       /\ LinksToDirs \subseteq Enqueued
  /\ \A p \in LinksToDirs : outcome[p] \in {"none", "statSkipped"}
  /\ \A i \in 1..Len(emitted) : emitted[i].path \in RegularFiles

C12_Witness ==
  /\ Done
  /\ \E i, j, k \in Paths :
       /\ i < j /\ j < k
       /\ tree[i] = "err" /\ tree[j] = "symdir" /\ tree[k] = "file"
       /\ outcome[j] = "statSkipped" /\ outcome[k] = "hashed"

QueuesWithinCapacity ==
  /\ Len(fileQueue) <= agent.QueueSize
  /\ Len(resultQueue) <= agent.QueueSize
  /\ Len(batchQueue) <= agent.NumWorkers

\* A producer at its send with the queue full does not move, except that on
\* an unbuffered queue the send completes in the step of the matching receive.
ProducerBlocks ==
  /\ (WalkIsFile /\ Len(fileQueue) >= agent.QueueSize) =>
       \/ pcMain' = pcMain
       \/ agent.QueueSize = 0 /\ dequeued' = dequeued \cup {walkIdx}
  /\ \A w \in Workers :
       (pcW[w] = "emit" /\ Len(resultQueue) >= agent.QueueSize) =>
         \/ pcW'[w] = pcW[w]
         \/ agent.QueueSize = 0 /\ popped' = Append(popped, FileRecord(pathW[w]))
  /\ (pcC = "push" /\ Len(batchQueue) >= agent.NumWorkers) => pcC' = pcC

\* A consumer at its receive with the queue empty and open does not move,
\* except in the step of a matching send on an unbuffered queue.
ConsumerBlocks ==
  /\ \A w \in Workers :
       (pcW[w] = "recv" /\ Len(fileQueue) = 0 /\ ~fileClosed) =>
         \/ pcW'[w] = pcW[w]
         \/ pcMain = "walk" /\ pcMain' = "queued" /\ pathW'[w] = walkIdx
  /\ (pcC = "recv" /\ Len(resultQueue) = 0 /\ ~resultClosed) =>
       \/ pcC' = pcC
       \/ Len(emitted') = Len(emitted) + 1
  /\ (pcS = "recv" /\ Len(batchQueue) = 0 /\ ~batchClosed) => pcS' = pcS

\* C13: the file queue never holds more than QueueSize paths, the result
\* queue never more than QueueSize records, the batch queue never more than
\* NumWorkers batches; a producer facing a full queue takes no step until a
\* consumer pops, and a consumer facing an empty open queue takes no step
\* until a push or a close.
C13_BoundedBlockingQueues ==
  /\ []QueuesWithinCapacity
  /\ [][ProducerBlocks /\ ConsumerBlocks]_vars

C13_Witness ==
  /\ agent.QueueSize = 1
  /\ WalkIsFile /\ Len(fileQueue) = 1
  /\ Len(resultQueue) = 1
  /\ pcS = "recv" /\ Len(batchQueue) = 0 /\ ~batchClosed

\* Records the Sender has passed to sendBatch: the batches whose call has
\* returned and the batch of the call in progress.
HandedToSendBatch ==
  Range(Flatten(SentBatches)) \cup (IF pcS = "send" THEN Range(cur) ELSE {})

\* Dequeued paths that are not skipped and whose record has not reached
\* sendBatch: held by a worker, on the result queue, in the Collector's
\* buffer or on the batch queue.
InFlight ==
  {p \in dequeued : p \notin Skipped /\ FileRecord(p) \notin HandedToSendBatch}

\* C14: whatever the Sender does (it may stop taking steps at any point),
\* the dequeued paths whose records have not reached sendBatch number at most
\* NumWorkers + QueueSize + BatchSize*(NumWorkers + 2), and the paths
\* enqueued but not yet processed at most QueueSize + NumWorkers. Stated for
\* the configurations in which BatchSize is a count (not negative).
C14_BoundedWorkInFlight ==
  agent.BatchSize >= 0 =>
    /\ Cardinality(InFlight)
         <= agent.NumWorkers + agent.QueueSize + agent.BatchSize * (agent.NumWorkers + 2)
    /\ Cardinality(Enqueued) - processedFiles <= agent.QueueSize + agent.NumWorkers

\* Workers between their acquire and their release of a permit.
PermitHolders ==
  {w \in Workers : pcW[w] \in {"stat", "hash", "emit", "count", "release"}}

\* C15: at most 2*NumWorkers permits of the file semaphore are held; the
\* permits held are exactly those of the workers inside an iteration, so a
\* worker has released its permit when it is back at the head of its loop,
\* whichever way the iteration ended (stat failure or directory, hash
\* failure, record emitted); once all workers have exited no permit is held.
C15_SemaphorePermits ==
  /\ fileSemaphore <= 2 * agent.NumWorkers
  /\ fileSemaphore = Cardinality(PermitHolders)
  /\ (\A w \in Workers : pcW[w] = "exit") => fileSemaphore = 0

C15_Witness ==
  /\ \A w \in Workers : pcW[w] = "exit"
  /\ fileSemaphore = 0
  /\ \E p \in Paths : outcome[p] = "statSkipped"
  /\ \E p \in Paths : outcome[p] = "hashFailed"
  /\ \E p \in Paths : outcome[p] = "hashed"

\* C16: every batch pushed onto the batch queue holds at least one record
\* and at most BatchSize records, whatever BatchSize is configured.
C16_BatchSizeRespected ==
  \A i \in 1..Len(pushed) :
    /\ Len(pushed[i]) >= 1
    /\ Len(pushed[i]) <= agent.BatchSize

MiB == 1024 * 1024

HashDone == hPc = "done"

\* Number of bytes written to the digest.
RECURSIVE FedLength(_)
FedLength(fed) ==
  IF fed = <<>> THEN 0
  ELSE (fed[1].to - fed[1].from) + Len(fed[1].lit) + FedLength(Tail(fed))

\* C17: the worker calls hashFile exactly for the sizes strictly below
\* 10 MiB and hashLargeFile for 10 MiB and more; hashFile writes every byte
\* of the file to the digest (so a change of any one byte changes the digest
\* input), hashLargeFile writes fewer bytes than the file has.
C17_StrategyBySizeAlone ==
  /\ hStrategy # "none" => (hStrategy = "hashFile" <=> hSize < 10 * MiB)
  /\ hStrategy # "none" => (hStrategy = "hashLargeFile" <=> hSize >= 10 * MiB)
  /\ (HashDone /\ hSize < 10 * MiB) =>
       /\ hFed = <<FileBytes(0, hSize)>>
       /\ hInputsDiffer
  /\ (HashDone /\ hSize >= 10 * MiB) => FedLength(hFed) < hSize

C17_Witness ==
  /\ HashDone
  /\ hSize = 10 * MiB
  /\ hStrategy = "hashLargeFile"
  /\ hFed[1] = FileBytes(0, MiB)

\* hashLargeFile has computed middleSize.
BudgetComputed == hStrategy = "hashLargeFile" /\ Len(hFed) > 0

\* C18 (as stated): the middle budget is 0 for every size up to 12 MiB,
\* size/10 above that and up to 100 MiB, and 10 MiB above 100 MiB.
C18_BudgetAsStated ==
  BudgetComputed =>
    hMiddle = IF hSize <= 12 * MiB THEN 0
              ELSE IF hSize <= 100 * MiB THEN hSize \div 10
              ELSE 10 * MiB

\* C18 (amended): the middle budget is 0 only for sizes up to 10 MiB (of
\* the sizes hashLargeFile is called with: exactly 10 MiB), floor(size/10) for
\* sizes above 10 MiB and up to 100 MiB inclusive, and exactly 10 MiB above
\* 100 MiB; every file with a positive budget is sampled (10 samples between
\* head and tail), files between 10 MiB and 12 MiB included.
C18_MiddleBudget ==
  /\ BudgetComputed =>
       hMiddle = IF hSize <= 10 * MiB THEN 0
                 ELSE IF hSize <= 100 * MiB THEN hSize \div 10
                 ELSE 10 * MiB
  /\ (HashDone /\ BudgetComputed) =>
       Len(hFed) = IF hSize > 10 * MiB THEN 1 + numSamples + 1 + 1 ELSE 1 + 1 + 1

C18_Witness ==
  /\ HashDone
  /\ hSize = 10 * MiB + 1
  /\ hMiddle = MiB
  /\ Len(hFed) = 13
  /\ hFed[2] = FileBytes(MiB, MiB + 104857)

InSampledRanges(s, o) ==
  LET budget == IF s > 100 * MiB THEN 10 * MiB ELSE IF s > 10 * MiB THEN s \div 10 ELSE 0
      start(i) == MiB + (((s - 2 * MiB) * i) \div 10)
  IN  \/ 0 <= o /\ o < MiB
      \/ s - MiB <= o /\ o < s
      \/ \E i \in 0..9 : start(i) <= o /\ o < start(i) + (budget \div 10)

UnsampledMiddle(s, o) == MiB <= o /\ o < s - MiB /\ ~InSampledRanges(s, o)

\* C20: two files of the same size of 10 MiB or more that differ in one byte
\* only get the same digest input, hence the same hash, whenever that byte
\* lies outside the head, the middle samples and the tail: the bytes written
\* to the two digests differ at no point of the computation. (Conversely the
\* inputs differ when the byte lies inside one of those ranges.)
C20_HashDependsOnSamplesOnly ==
  hStrategy = "hashLargeFile" =>
    /\ ~InSampledRanges(hSize, hDiff) => ~hInputsDiffer
    /\ (HashDone /\ InSampledRanges(hSize, hDiff)) => hInputsDiffer

C20_Witness ==
  /\ HashDone
  /\ hSize = 150 * MiB
  /\ UnsampledMiddle(hSize, hDiff)
  /\ ~hInputsDiffer

\* The bytes written to the digest after the last byte read from the file.
Suffix(fed) == IF fed = <<>> THEN <<>> ELSE fed[Len(fed)].lit

LastBytes(s, k) == SubSeq(s, Len(s) - k + 1, Len(s))

\* Two digest inputs can be the same byte string for some contents of the
\* two files: they have the same length, and where the fixed bytes that end
\* them face each other these are equal. (The bytes read from the files are
\* free, so this is all that can keep two inputs apart.)
MayCoincide(fedA, fedB) ==
  LET k == Min(Len(Suffix(fedA)), Len(Suffix(fedB)))
  IN  /\ FedLength(fedA) = FedLength(fedB)
      /\ LastBytes(Suffix(fedA), k) = LastBytes(Suffix(fedB), k)

BothSampled ==
  /\ hPrev # <<>>
  /\ HashDone
  /\ hPrev[1].strategy = "hashLargeFile"
  /\ hStrategy = "hashLargeFile"

\* C21: two files of different sizes, both hashed by hashLargeFile, never
\* have the same digest input, whatever their contents (so also when all
\* their sampled bytes are identical): each input ends with the 8 bytes of
\* its size, least significant first, and these differ.
C21_SizeSeparatesSampledInputs ==
  (BothSampled /\ hPrev[1].size # hSize) =>
    /\ Len(Suffix(hFed)) = 8
    /\ Len(Suffix(hPrev[1].fed)) = 8
    /\ Suffix(hFed) # Suffix(hPrev[1].fed)
    /\ ~MayCoincide(hPrev[1].fed, hFed)

C21_Witness ==
  /\ BothSampled
  /\ hPrev[1].size = 150 * MiB
  /\ hSize = 150 * MiB + 1
  /\ FedLength(hPrev[1].fed) = FedLength(hFed)
  /\ \A k \in 1..12 : hFed[k].to - hFed[k].from = hPrev[1].fed[k].to - hPrev[1].fed[k].from

\* Every file entry was stat'ed and hashed without error and every call of
\* sendBatch returned nil.
NoFailures ==
  /\ \A p \in FileEntries : outcome[p] = "hashed"
  /\ \A i \in 1..Len(sent) : sent[i].err = "nil"

RecordsWithHash(h) == {i \in 1..Len(emitted) : emitted[i].hash = h}

\* C22: for a root with three byte-identical files and one distinct file,
\* a batch size of 4 or more and no failures, a finished run has emitted
\* exactly 4 records, one per file, in exactly 1 batch, whatever the
\* interleaving of the workers; two records carry the same hash exactly when
\* their files have the same bytes, so three records share one hash value
\* and the fourth has another.
C22_FourRecordsOneBatch ==
  (Done /\ NoFailures) =>
    /\ Len(emitted) = 4
    /\ {emitted[i].path : i \in 1..Len(emitted)} = FileEntries
    /\ Len(pushed) = 1
    /\ Len(pushed[1]) = 4
    /\ Len(sent) = 1
    /\ Range(sent[1].batch) = Range(emitted)
    /\ \A i, j \in 1..Len(emitted) :
         emitted[i].hash = emitted[j].hash <=> content[emitted[i].path] = content[emitted[j].path]
    /\ {Cardinality(RecordsWithHash(emitted[i].hash)) : i \in 1..Len(emitted)} = {1, 3}

C22_Witness ==
  /\ Done /\ NoFailures
  /\ agent.NumWorkers = 2
  /\ agent.BatchSize = 4
  /\ Len(emitted) = 4
  /\ emitted[1].path = 3
  /\ content[2] = 2
  /\ emitted[2].hash # emitted[1].hash

\* Records emitted for path p.
RecordsOf(p) == {i \in 1..Len(emitted) : emitted[i].path = p}

\* The worker holding p is past its send on the result queue.
Emitted(p) ==
  /\ outcome[p] = "hashed"
  /\ \A w \in Workers : pathW[w] = p => pcW[w] \notin {"hash", "emit"}

\* C23: when filepath.Abs fails for the directory of a hashed file, the
\* worker still emits exactly one record for the file, whose Path is the
\* unresolved directory filepath.Dir gave, and still counts the file as
\* processed once; the other records carry the absolute directory.
C23_AbsFailureKeepsRecord ==
  /\ \A p \in Paths : Emitted(p) => Cardinality(RecordsOf(p)) = 1
  /\ \A i \in 1..Len(emitted) :
       emitted[i].dir = IF emitted[i].path \in absFails
                        THEN Dir(emitted[i].path)
                        ELSE Abs(Dir(emitted[i].path))
  /\ processedFiles = Cardinality(dequeued) - Cardinality(Uncounted)
  /\ Done => processedFiles = Cardinality(Enqueued)

C23_Witness ==
  /\ Done
  /\ \E p, q \in Hashed :
       /\ p \in absFails /\ q \notin absFails
       /\ FileRecord(p) \in Range(Flatten(SentBatches))
       /\ FileRecord(p).dir = Dir(p)
       /\ FileRecord(q).dir.abs
  /\ processedFiles = Cardinality(FileEntries)

GateOn == maxFileSize > 0

TooLarge == {p \in Paths : fileSize[p] > maxFileSize}

\* C24: with the skip-large gate on with limit M, a path whose file is
\* larger than M is never pushed onto the file queue, so no worker dequeues,
\* stats or hashes it and no record is emitted for it; the files within the
\* limit are enqueued as without the gate.
C24_GateKeepsLargeFilesOut ==
  GateOn =>
    /\ Enqueued \cap TooLarge = {}
    /\ \A p \in TooLarge : outcome[p] = "none" /\ RecordsOf(p) = {}
    /\ \A w \in Workers : pathW[w] \notin TooLarge
    /\ (WalkerFinished /\ Alive) => Enqueued = FileEntries \ TooLarge

C24_Witness ==
  /\ Done /\ GateOn
  /\ \E p, q \in FileEntries :
       /\ p < q
       /\ p \in TooLarge /\ q \notin TooLarge
       /\ outcome[p] = "none" /\ outcome[q] = "hashed"
       /\ FileRecord(q) \in Range(Flatten(SentBatches))
  /\ processedFiles < totalFiles

NothingStarted ==
  /\ Enqueued = {}
  /\ queuedFiles = 0 /\ processedFiles = 0
  /\ \A w \in Workers : pcW[w] = "idle"
  /\ pcC = "idle" /\ pcS = "idle" /\ pcR = "idle"
  /\ report = <<>>

\* A step of the progress reporter: a tick that logs, or its return.
ReporterStep == report' # report \/ (pcR = "run" /\ pcR' = "exit")

\* C25: while the counting pass is running nothing else has started (no
\* path enqueued; workers, collector, sender and reporter not started); once
\* it has finished, total_files and total_bytes never change again; and no
\* step of the progress reporter changes any counter.
C25_CountingPassFirst ==
  /\ [](pcMain = "count" => NothingStarted)
  /\ [][pcMain # "count" => (totalFiles' = totalFiles /\ totalBytes' = totalBytes)]_vars
  /\ [][ReporterStep =>
          UNCHANGED <<totalFiles, totalBytes, processedFiles, queuedFiles>>]_vars

C25_Witness ==
  /\ Done
  /\ pcR = "exit"
  /\ report # <<>>
  /\ report[1].processed = 1 /\ report[1].queued = 2 /\ report[1].total = 3
  /\ totalFiles = 3 /\ totalBytes = 3
  /\ processedFiles = 3

Max(a, b) == IF a < b THEN b ELSE a

\* The argument of the last call of setter fn with a positive argument, or
\* dflt when there is none.
LastPositive(fn, dflt) ==
  LET idx == {i \in 2..Len(calls) : calls[i].fn = fn /\ calls[i].arg > 0}
  IN  IF idx = {} THEN dflt
      ELSE calls[CHOOSE i \in idx : \A j \in idx : j <= i].arg

\* No wrap-around in the batch * 2 of New.
BatchDoubles == calls[1].batch * 2 = WrapInt(calls[1].batch * 2)

\* C26: an agent built by New(batch) on a machine with cpus CPUs, followed
\* by any calls of WithWorkers and WithQueueSize, has NumWorkers equal to the
\* last positive WithWorkers argument, or max(cpus, 4) when there is none,
\* QueueSize equal to the last positive WithQueueSize argument, or
\* max(2*batch, 1000) when there is none, BatchSize equal to batch, and
\* NumWorkers >= 1 and QueueSize >= 1.
C26_BuiltAsStated ==
  calls # <<>> =>
    /\ agent.NumWorkers = LastPositive("WithWorkers", Max(calls[1].cpus, 4))
    /\ agent.QueueSize = LastPositive("WithQueueSize", Max(2 * calls[1].batch, 1000))
    /\ agent.BatchSize = calls[1].batch
    /\ agent.NumWorkers >= 1
    /\ agent.QueueSize >= 1

\* What holds of the code: the same, for a batch whose double fits an int;
\* and NumWorkers >= 1 and QueueSize >= 1 for every batch.
BuiltAsStatedWithoutOverflow ==
  /\ (calls # <<>> /\ BatchDoubles) => C26_BuiltAsStated
  /\ calls # <<>> => (agent.NumWorkers >= 1 /\ agent.QueueSize >= 1)

\* The request of call i reached the server and was answered with 204.
Answered204(i) == wire[i] = "status204"

\* A call of sendBatch returns.
SendBatchReturns == Len(sent') = Len(sent) + 1

\* C27: a call of sendBatch returns nil exactly when its request was
\* transmitted and answered with status 204; an encoding error, a
\* request-construction error, a transport error and every other status give
\* a non-nil error; and whatever the call returns, the Sender lets go of the
\* batch and goes on to the next receive, so no batch is passed to sendBatch
\* twice.
C27_NilIff204 ==
  /\ [](/\ Len(wire) = Len(sent)
        /\ \A i \in 1..Len(sent) : (sent[i].err = "nil") <=> Answered204(i)
        /\ \A i \in 1..Len(sent) : sent[i].err \in {"nil", "error"}
        /\ \A i, j \in 1..Len(sent) : i < j => sent[i].batch # sent[j].batch)
  /\ [][SendBatchReturns => (pcS = "send" /\ pcS' = "recv" /\ cur' = <<>>)]_vars

C27_Witness ==
  /\ Done
  /\ Len(sent) = 2
  /\ wire[1] \in {"encodeError", "requestError", "transportError", "statusOther"}
  /\ sent[1].err = "error"
  /\ wire[2] = "status204"
  /\ sent[2].err = "nil"
  /\ sent[1].batch # sent[2].batch

\* C28: in every reachable state of a run the processed counter is at most
\* the queued counter.
C28_ProcessedAtMostQueued == processedFiles <= queuedFiles

\* Run logged "Scan completed" and returned nil.
SummaryEmitted == \E i \in 1..Len(log) : log[i] = "summaryReturn"

\* C29: the tree being the same in the counting pass and in the scan,
\* processed never exceeds total_files, a progress line never shows more
\* than 100.0 percent, and when Run emits its summary processed, queued and
\* total_files are equal.
C29_ProcessedWithinTotal ==
  /\ processedFiles <= totalFiles
  /\ report # <<>> => report[1].percent <= 100 * 10
  /\ SummaryEmitted => (processedFiles = queuedFiles /\ queuedFiles = totalFiles)

C29_Witness ==
  /\ SummaryEmitted
  /\ report # <<>>
  /\ report[1].percent = 100 * 10
  /\ report[1].queued = 2
  /\ totalFiles = 2
  /\ Len(tree) = 4
  /\ \E p \in FileEntries : outcome[p] # "hashed"

\* Worker w holds its permit and is blocked pushing its record: the result
\* queue is full, or unbuffered with the Collector not at its receive.
EmitBlocked(w) ==
  /\ pcW[w] = "emit" /\ ~resultClosed
  /\ IF ResultQueueCap = 0 THEN pcC # "recv" ELSE Len(resultQueue) >= ResultQueueCap

\* C30: a permit is only ever taken by a worker at the head of an iteration,
\* which holds none, one permit at a time; so at most NumWorkers permits
\* are held, a worker about to acquire always finds a free permit, and a
\* worker blocked on the full result queue with its permit in hand leaves
\* every other worker able to acquire.
C30_AcquireNeverBlocks ==
  /\ [](Alive =>
         /\ fileSemaphore <= agent.NumWorkers
         /\ \A w \in Workers : pcW[w] = "acquire" => fileSemaphore < SemaphoreCap
         /\ \A w, v \in Workers :
              (EmitBlocked(w) /\ pcW[v] = "acquire") => ENABLED WorkerAcquire(v))
  /\ [][fileSemaphore' > fileSemaphore =>
          /\ fileSemaphore' = fileSemaphore + 1
          /\ \E w \in Workers : pcW[w] = "acquire" /\ pcW'[w] = "stat"]_vars

C30_Witness ==
  /\ Alive
  /\ agent.NumWorkers = 2
  /\ \E w, v \in Workers :
       /\ EmitBlocked(w) /\ pcW[v] = "acquire"
       /\ fileSemaphore = 1
       /\ ENABLED WorkerAcquire(v)

\* 1 MiB + floor((S - 2 MiB) * i / 10), computed without wrap-around.
StatedPos(size, i) ==
  BigAdd(BigOf(MiB), BigDiv(BigMul(BigSub(size, BigOf(2 * MiB)), i), 10))

SampleEnd(k) == BigAdd(oSamples[k].pos, oSamples[k].read)

SamplesAsStated ==
  /\ oPc # "seekError"
  /\ oPc \in {"tail", "done"} => Len(oSamples) = 10
  /\ \A k \in 1..Len(oSamples) :
       /\ oSamples[k].pos = StatedPos(oSize, k - 1)
       /\ oSamples[k].read = BigDiv(MiddleBudget64(oSize), 10)
       /\ BigLeq(BigOf(MiB), oSamples[k].pos)
       /\ BigLeq(SampleEnd(k), BigSub(oSize, BigOf(MiB)))
       /\ k > 1 => BigLeq(SampleEnd(k - 1), oSamples[k].pos)

\* C31: for every size of at least 10 MiB with a positive middle budget the
\* ten samples start at 1 MiB + floor((S - 2 MiB) * i / 10), i = 0..9, each
\* reads floor(budget / 10) bytes, a sample ends before the next begins, and
\* all lie in [1 MiB, S - 1 MiB).
C31_SamplesAsStated ==
  (oPc \notin {"idle", "head"} /\ MiddleBudget64(oSize) # <<>>) => SamplesAsStated

\* What holds of the code: the same, for the sizes up to LastSafeSize.
SamplesAsStatedWithoutOverflow ==
  (oPc \notin {"idle", "head"} /\ MiddleBudget64(oSize) # <<>>
     /\ BigLeq(oSize, LastSafeSize)) => SamplesAsStated

\* Two files were hashed, one by hashFile and one by hashLargeFile.
FullAndSampled ==
  /\ hPrev # <<>>
  /\ HashDone
  /\ {hPrev[1].strategy, hStrategy} = {"hashFile", "hashLargeFile"}

\* C32: a file hashed in full (size < 10 MiB) and a file hashed by samples
\* (size >= 10 MiB) never have the same digest input, whatever their
\* contents.
C32_FullAndSampledInputsDiffer ==
  FullAndSampled => ~MayCoincide(hPrev[1].fed, hFed)

SeqEnded == seqPc \in {"done", "failed"}

\* No stat, hash or send failed, in either run.
AllSucceeded ==
  /\ \A p \in Paths : outcome[p] \notin {"statSkipped", "hashFailed"}
  /\ \A p \in Paths : seqOutcome[p] # "hashFailed"
  /\ \A i \in 1..Len(sent) : sent[i].err = "nil"
  /\ \A i \in 1..Len(seqSent) : seqSent[i].err = "nil"

\* The files of the records in a sequence of sendBatch calls, and the sizes
\* of their batches.
FilesOf(calls_) == {r.path : r \in Range(Flatten([i \in 1..Len(calls_) |-> calls_[i].batch]))}
BatchSizesOf(calls_) == [i \in 1..Len(calls_) |-> Len(calls_[i].batch)]
OncePerFile(calls_) ==
  Len(Flatten([i \in 1..Len(calls_) |-> calls_[i].batch])) = Cardinality(FilesOf(calls_))

SameTransmission ==
  /\ FilesOf(sent) = FileEntries
  /\ FilesOf(seqSent) = FileEntries
  /\ OncePerFile(sent) /\ OncePerFile(seqSent)
  /\ Len(sent) = Len(seqSent)
  /\ BatchSizesOf(sent) = BatchSizesOf(seqSent)
  /\ agent.BatchSize >= 1 =>
       Len(sent) = (Cardinality(FileEntries) + agent.BatchSize - 1) \div agent.BatchSize

\* C33: when every stat, hash and send succeeds, the pipeline and the
\* sequential Run, each run to its end on the same tree, have transmitted
\* the same files, each once, in the same number of batches, ceil(N/B), of
\* the same sizes.
C33_SameTransmission ==
  (RunEnded /\ SeqEnded /\ AllSucceeded) => SameTransmission

\* What holds of the code: the same, when the pipeline has returned.
SameTransmissionWhenReturned ==
  (Done /\ SeqEnded /\ AllSucceeded) => SameTransmission

AtMostOneRowPerKey == \A r1, r2 \in files : KeyOf(r1) = KeyOf(r2) => r1 = r2

\* The handler has finished the loop over the records of its request.
Served == handler.pc = "upserting" /\ handler.idx > Len(handler.files)

\* The request served is the batch of the request answered just before it.
Reposted ==
  /\ Served
  /\ requests # <<>>
  /\ requests[1].status = 204
  /\ requests[1].files = handler.files

\* The table is as it was when the request served arrived.
RowsAsBefore ==
  /\ files = handler.before
  /\ FindDuplicateFiles(files) = FindDuplicateFiles(handler.before)

\* The record is stored: its key has a row with its size, mtime and hash.
Stored(table, f) ==
  \E row \in table :
    /\ KeyOf(row) = KeyOf(f)
    /\ row.size = f.size /\ row.mtime = f.mtime /\ row.hash = f.hash

\* The request served holds only records that were stored as they are when
\* it arrived, as the requests of a second scan of an unchanged tree do.
Rescanned ==
  /\ Served
  /\ \A i \in 1..Len(handler.files) : Stored(handler.before, handler.files[i])

\* A step of the loop whose UpsertFile succeeded.
UpsertSucceeds ==
  /\ handler.pc = "upserting"
  /\ handler'.pc = "upserting"
  /\ handler'.idx = handler.idx + 1
  /\ handler'.failed = handler.failed

\* After it the key of the record has the record's size, mtime and hash in
\* the row it had before, or in a new row; the other rows are as they were.
Overwrites ==
  UpsertSucceeds =>
    LET f == handler.files[handler.idx]
    IN  /\ Stored(files', f)
        /\ \A row \in files : KeyOf(row) # KeyOf(f) => row \in files'
        /\ {row.id : row \in files} \subseteq {row.id : row \in files'}
        /\ Cardinality(files') =
             Cardinality(files) + (IF Conflict(files, f) = {} THEN 1 ELSE 0)

\* No UpsertFile call failed, in the request served or in the one before it.
NoUpsertFailed == requests[1].failed = {} /\ handler.failed = {}

Answered == requests # <<>> /\ handler.pc = "idle"

\* The step answers a request with 400.
Answers400 == requests' # requests /\ requests'[1].status = 400

\* C35: UploadFilesHandler answers 204 exactly when the body decompressed and
\* decoded, whether or not UpsertFile calls failed, and the agent's sendBatch
\* returns nil for that answer; of a request answered 204 every record whose
\* UpsertFile did not fail has a row. It answers 400 when gzip.NewReader or
\* Decode failed, an error for sendBatch, and then no UpsertFile was called
\* and the table is as it was.
C35_Answers204UnlessUndecodable ==
  /\ [](requests # <<>> =>
         /\ requests[1].status \in {204, 400}
         /\ requests[1].status = 204 <=> requests[1].err = "nil"
         /\ requests[1].status = 400 <=> requests[1].err \in {"gzip", "json"}
         /\ sendBatch(StatusEvent(requests[1].status)) = "nil" <=> requests[1].err = "nil"
         /\ requests[1].err # "nil" => requests[1].failed = {} /\ requests[1].files = <<>>
         /\ (Answered /\ requests[1].status = 204) =>
              \A i \in 1..Len(requests[1].files) :
                i \notin requests[1].failed => Conflict(files, requests[1].files[i]) # {})
  /\ [][Answers400 => (handler.pc = "idle" /\ handler'.pc = "idle" /\ files' = files)]_vars

\* A batch of two records was answered 204, which sendBatch takes as
\* success, and the record whose UpsertFile failed has no row.
C35_Witness ==
  /\ Answered
  /\ requests[1].status = 204
  /\ sendBatch(StatusEvent(requests[1].status)) = "nil"
  /\ Len(requests[1].files) = 2
  /\ requests[1].failed = {2}
  /\ Conflict(files, requests[1].files[1]) # {}
  /\ Conflict(files, requests[1].files[2]) = {}

====
